---- MODULE Spec2Model ----
(***************************************************************************)
(* Data-room backend (apps/api/app): the Drive import pipeline with its    *)
(* two dedup keys, and the room-scoped RBAC endpoints.                     *)
(*                                                                         *)
(* The datastore tables (user, oauthtoken, file, room, membership,         *)
(* fileroomlink, auditlog), the storage directory and the import requests  *)
(* in flight are the state.                                                *)
(*                                                                         *)
(* A synchronous endpoint is an operator from the request's inputs and     *)
(* the current state to its HTTP status and the tables as it leaves them;  *)
(* the action of the endpoint applies that operator.  The asynchronous     *)
(* import endpoint is cut at the points where a coroutine can observe or   *)
(* change shared state after an await; awaits that touch only the          *)
(* coroutine's own client are folded into the step that follows them.      *)
(* Strings that the code transforms (file names) are sequences of          *)
(* one-character strings.                                                  *)
(*                                                                         *)
(* Not modelled: MIME type, size, timestamps, request provenance (ip,      *)
(* user agent), room names, the demo seed (settings.demo_seed is False by  *)
(* default) and a deployment without Google credentials.                   *)
(***************************************************************************)
EXTENDS Integers, Sequences, FiniteSets, TLC

\* ------------------------------------------------------------------ bounds
MaxRooms == 1       \* rooms that create_room may create
MaxIdx == 1         \* largest " (N)" disambiguator a destination may get
MaxAudit == 3       \* audit entries that may be appended
MaxBatch == 2       \* drive_file_ids per import request
MaxReq == 1         \* import requests in flight at once
MaxTasks == 2       \* _import_one coroutines in flight at once
MaxFileId == 2      \* largest id the file table may hand out

\* ------------------------------------------------------------------ values
NoId == 0                       \* Optional[int] = None; also "first() found no row"
NoEmail == "none"               \* no session email / no email parameter
NoRole == "none"                \* no membership row
NoToken == "none"               \* Optional[str] = None
Absent == "absent"              \* no filesystem entry at a path
Empty == "empty"                \* b"": a file of zero bytes

Emails == {"ann", "bob"}
UserIds == 1..Cardinality(Emails)
RoomIds == 1..MaxRooms
Roles == {"owner", "admin", "editor", "viewer"}
\* Drive ids and remote names: the id "_" always gets the local name "_" (its
\* own id, or the sanitized remote name "/"); the id "b" gets "b" or "_".
Fids == {<<"_">>, <<"b">>}
RemoteNames == {<<>>, <<"/">>}
Contents == {"c1", "c2"}

\* hashlib.sha256(...).hexdigest(): distinct contents have distinct digests
Sha256(c) == CASE c = "c1" -> "h1" [] c = "c2" -> "h2" [] OTHER -> "h0"

Max(S) == IF S = {} THEN 0 ELSE CHOOSE m \in S : \A x \in S : x <= m
Min(S) == CHOOSE m \in S : \A x \in S : m <= x
\* INTEGER PRIMARY KEY of SQLite: one more than the largest id in the table
NextId(rows) == Max({x.id : x \in rows}) + 1

\* ------------------------------------------------------------------ names and paths
SafeFilename(name) ==
    LET candidate == [i \in 1..Len(name) |->
                        IF name[i] \in {"/", "\\"} THEN "_" ELSE name[i]]
    IN  IF candidate = <<>> THEN <<"f", "i", "l", "e">> ELSE candidate

\* meta.get("name") or file_id
MetaName(metaName, fid) == IF metaName = <<>> THEN fid ELSE metaName

SafeNames == {SafeFilename(MetaName(n, f)) : n \in RemoteNames, f \in Fids}
\* f"{base} ({idx}){ext}" under storage_dir; idx 0 is the undecorated name
Paths == [name : SafeNames, idx : 0..MaxIdx]
NoPath == [name |-> <<>>, idx |-> 0]

VARIABLES
    allow_email_param,  \* settings.allow_email_param
    public_room_id,     \* settings.public_room_id (NoId: not set)
    sessions,           \* emails for which a browser holds a session cookie
    users,              \* user table: email -> id (NoId: no row)
    tokens,             \* oauthtoken table: rows of provider "google"
    files,              \* file table
    disk,               \* storage_dir: path -> content
    rooms,              \* room table: set of ids
    members,            \* membership table
    links,              \* fileroomlink table
    audit,              \* auditlog table, in insertion order
    imp                 \* import requests in flight

vars == <<allow_email_param, public_room_id, sessions, users, tokens, files,
          disk, rooms, members, links, audit, imp>>

config == <<allow_email_param, public_room_id>>
identity == <<sessions, users, tokens>>
roomTables == <<rooms, members, links, audit>>

\* ------------------------------------------------------------------ identity
\* the email parameter is taken whatever the flag says
GetSessionEmailOpen(sess_email, fallback_email) ==
    IF sess_email # NoEmail THEN sess_email ELSE fallback_email

GetSessionEmail(sess_email, fallback_email) ==
    IF sess_email # NoEmail THEN sess_email
    ELSE IF allow_email_param THEN fallback_email
    ELSE NoEmail

UserByEmail(email) == IF email = NoEmail THEN NoId ELSE users[email]

GetActiveUser(sess_email, fallback_email) ==
    UserByEmail(GetSessionEmail(sess_email, fallback_email))

\* What a request carries: the email of its session cookie, if any, and the
\* email parameter, if any.  w is the world a specification runs in: the
\* sets its callers and the provider draw their inputs from.
SessionInputs == sessions \cup {NoEmail}
EmailInputs(w) == w.emails \cup {NoEmail}
CredInputs(w) ==
    {c \in SessionInputs \X EmailInputs(w) :
        w.both \/ c[1] = NoEmail \/ c[2] = NoEmail}

\* the membership lookup finds nothing
MembershipRowBlind(user_id, room_id) == NoId

\* select(Membership).where(user_id, room_id).first(): the id of the row
MembershipRow(user_id, room_id) ==
    LET found == {m \in members : m.user_id = user_id /\ m.room_id = room_id}
    IN  IF found = {} THEN NoId ELSE Min({m.id : m \in found})

\* the role of that row
GetMembership(user_id, room_id) ==
    LET found == {m \in members : m.user_id = user_id /\ m.room_id = room_id}
    IN  IF found = {} THEN NoRole
        ELSE (CHOOSE m \in found : m.id = Min({x.id : x \in found})).role

\* _ensure_role never raises
EnsureRoleAlways(user_id, room_id, allowed) == TRUE

\* TRUE when _ensure_role returns, FALSE when it raises 403
EnsureRole(user_id, room_id, allowed) == GetMembership(user_id, room_id) \in allowed

\* viewers are not members
AnyMemberNarrow == {"owner", "admin", "editor"}
AnyMember == {"owner", "admin", "editor", "viewer"}
\* viewers may edit
EditorUpWide == {"owner", "admin", "editor", "viewer"}
\* admins are left out
EditorUpGap == {"owner", "editor"}
EditorUp == {"owner", "admin", "editor"}
\* editors may administer
AdminUpWide == {"owner", "admin", "editor"}
AdminUp == {"owner", "admin"}
\* every role of the enumeration may be named
MemberRolesAll == {"owner", "admin", "editor", "viewer"}
\* req.role not in ["admin", "editor", "viewer"]
MemberRoles == {"admin", "editor", "viewer"}

\* the entry takes the place of the latest one
LogActionOverwrite(log, actor_user_id, action, object_id, room_id) ==
    LET entry == [actor |-> actor_user_id, action |-> action,
                  object_id |-> object_id, room_id |-> room_id]
    IN  IF log = <<>> THEN <<entry>> ELSE [log EXCEPT ![Len(log)] = entry]

\* session.add(AuditLog(...))
LogAction(log, actor_user_id, action, object_id, room_id) ==
    Append(log, [actor |-> actor_user_id, action |-> action,
                 object_id |-> object_id, room_id |-> room_id])

\* ------------------------------------------------------------------ Init
Init ==
    /\ allow_email_param \in BOOLEAN
    /\ public_room_id \in {NoId} \cup RoomIds
    /\ sessions = {}
    /\ users = [e \in Emails |-> NoId]
    /\ tokens = {}
    /\ files = {}
    /\ disk = [p \in Paths |-> Absent]
    /\ rooms = {}
    /\ members = {}
    /\ links = {}
    /\ audit = <<>>
    /\ imp = [r \in 1..MaxReq |-> [active |-> FALSE]]

\* ------------------------------------------------------------------ OAuth callback
NoTokenRow == [id |-> NoId, user_id |-> NoId,
               access_token |-> NoToken, refresh_token |-> NoToken]

\* a lookup that finds no row
TokenRowBlind(user_id) == NoTokenRow

TokenOf(rows, user_id) ==
    LET found == {t \in rows : t.user_id = user_id}
    IN  IF found = {} THEN NoTokenRow
        ELSE CHOOSE t \in found : t.id = Min({x.id : x \in found})

\* select(OAuthToken).where(user_id, provider == "google").first()
TokenRow(user_id) == TokenOf(tokens, user_id)

HasToken(user_id) == TokenRow(user_id).id # NoId

\* select(User).where(email).first() or a new row
UpsertUser(email) ==
    IF users[email] = NoId THEN Max({users[e] : e \in Emails}) + 1 ELSE users[email]

\* The provider vouches for `email` and returns an access token and,
\* possibly, a refresh token.
google_callback(email, refresh_token) ==
    LET uid == UpsertUser(email)
        token_row == TokenRow(uid)
    IN  /\ users' = [users EXCEPT ![email] = uid]
        /\ tokens' =
              IF token_row.id = NoId
              THEN tokens \cup {[id |-> NextId(tokens), user_id |-> uid,
                                 access_token |-> "at0",
                                 refresh_token |-> refresh_token]}
              ELSE (tokens \ {token_row}) \cup
                   {[token_row EXCEPT
                       !.access_token = "at0",
                       !.refresh_token = IF refresh_token # NoToken
                                         THEN refresh_token
                                         ELSE token_row.refresh_token]}
        /\ sessions' = sessions \cup {email}
        /\ UNCHANGED <<config, files, disk, roomTables, imp>>

GoogleCallback(w) ==
    \E email \in w.emails, refresh_token \in w.refresh :
        google_callback(email, refresh_token)

\* ------------------------------------------------------------------ file table helpers
NoFile == [id |-> NoId, user_id |-> NoId, drive_file_id |-> <<>>,
           local_path |-> NoPath, sha256 |-> ""]

\* session.get(FileModel, file_id)
FileGet(file_id) ==
    IF \E f \in files : f.id = file_id
    THEN CHOOSE f \in files : f.id = file_id
    ELSE NoFile

PathExists(path) == path \in Paths /\ disk[path] # Absent

\* the file is never removed
RemoveNever(path, rm_ok) == disk

\* try: os.remove(path) except OSError: pass
RemoveIfPresent(path, rm_ok) ==
    IF PathExists(path) /\ rm_ok THEN [disk EXCEPT ![path] = Absent] ELSE disk

\* the link lookup finds nothing
LinkGetBlind(room_id, file_id) == NoId

\* select(FileRoomLink).where(room_id, file_id).first()
LinkGet(room_id, file_id) ==
    LET found == {l \in links : l.room_id = room_id /\ l.file_id = file_id}
    IN  IF found = {} THEN NoId ELSE Min({l.id : l \in found})

FileIdInputs ==
    {f.id : f \in files} \cup {l.file_id : l \in links} \cup {NextId(files)}

\* ------------------------------------------------------------------ owner-scoped file endpoints
\* the owner comparison always passes
OwnsFileAny(f, user_id) == TRUE

\* f.user_id != user.id
OwnsFile(f, user_id) == f.user_id = user_id

list_files(sess_email, fallback_email) ==
    LET active_email == GetSessionEmail(sess_email, fallback_email)
        uid == UserByEmail(active_email)
    IN  IF active_email = NoEmail THEN [status |-> 401, files |-> {}]
        ELSE IF uid = NoId THEN [status |-> 200, files |-> {}]
        ELSE [status |-> 200, files |-> {f \in files : f.user_id = uid}]

ListFiles(w) ==
    /\ \E c \in CredInputs(w) : list_files(c[1], c[2]).status \in {200, 401}
    /\ UNCHANGED vars

preview_file(file_id, sess_email, fallback_email) ==
    LET active_email == GetSessionEmail(sess_email, fallback_email)
        uid == UserByEmail(active_email)
        file == FileGet(file_id)
        Fail(status, detail) == [status |-> status, detail |-> detail, path |-> NoPath]
    IN  IF active_email = NoEmail THEN Fail(401, "Not authenticated")
        ELSE IF uid = NoId THEN Fail(404, "User not found")
        ELSE IF file.id = NoId \/ ~OwnsFile(file, uid) THEN Fail(404, "File not found")
        ELSE IF ~PathExists(file.local_path) THEN Fail(404, "Local file missing")
        ELSE [status |-> 200, detail |-> "", path |-> file.local_path]

PreviewFile(w) ==
    /\ \E file_id \in FileIdInputs, c \in CredInputs(w) :
          preview_file(file_id, c[1], c[2]).status \in {200, 401, 404}
    /\ UNCHANGED vars

delete_file(file_id, sess_email, fallback_email, rm_ok) ==
    LET active_email == GetSessionEmail(sess_email, fallback_email)
        uid == UserByEmail(active_email)
        file == FileGet(file_id)
        Fail(status, detail) == [status |-> status, detail |-> detail,
                                 files |-> files, disk |-> disk]
    IN  IF active_email = NoEmail THEN Fail(401, "Not authenticated")
        ELSE IF uid = NoId THEN Fail(404, "User not found")
        ELSE IF file.id = NoId \/ ~OwnsFile(file, uid) THEN Fail(404, "File not found")
        ELSE [status |-> 200, detail |-> "", files |-> files \ {file},
              disk |-> RemoveIfPresent(file.local_path, rm_ok)]

DeleteFile(w) ==
    /\ \E file_id \in FileIdInputs, c \in CredInputs(w), rm_ok \in w.rm :
          LET r == delete_file(file_id, c[1], c[2], rm_ok)
          IN  files' = r.files /\ disk' = r.disk
    /\ UNCHANGED <<config, identity, roomTables, imp>>

\* ------------------------------------------------------------------ rooms
\* the creator becomes an administrator
CreatorRoleAdmin == "admin"

\* Membership(user_id=user.id, room_id=room.id, role="owner")
CreatorRole == "owner"

create_room(sess_email, fallback_email) ==
    LET user == GetActiveUser(sess_email, fallback_email)
        rid == Max(rooms) + 1
    IN  IF user = NoId
        THEN [status |-> 401, id |-> NoId, rooms |-> rooms, members |-> members,
              audit |-> audit]
        ELSE [status |-> 200, id |-> rid, rooms |-> rooms \cup {rid},
              members |-> members \cup {[id |-> NextId(members), user_id |-> user,
                                          room_id |-> rid, role |-> CreatorRole]},
              audit |-> LogAction(audit, user, "room.create", rid, rid)]

CreateRoom(w) ==
    /\ \E c \in CredInputs(w) :
          LET r == create_room(c[1], c[2])
          IN  /\ r.id <= MaxRooms
              /\ Len(r.audit) <= MaxAudit
              /\ rooms' = r.rooms /\ members' = r.members /\ audit' = r.audit
    /\ UNCHANGED <<config, identity, files, disk, links, imp>>

add_member(room_id, req_email, req_role, sess_email, fallback_email) ==
    LET actor == GetActiveUser(sess_email, fallback_email)
        target == UpsertUser(req_email)
        existing == MembershipRow(target, room_id)
        Fail(status) == [status |-> status, users |-> users, members |-> members,
                         audit |-> audit]
    IN  IF req_role \notin MemberRoles THEN Fail(400)
        ELSE IF actor = NoId THEN Fail(401)
        ELSE IF ~EnsureRole(actor, room_id, AdminUp) THEN Fail(403)
        ELSE [status |-> 200,
              users |-> [users EXCEPT ![req_email] = target],
              members |->
                  IF existing # NoId
                  THEN {IF m.id = existing THEN [m EXCEPT !.role = req_role] ELSE m :
                           m \in members}
                  ELSE members \cup {[id |-> NextId(members), user_id |-> target,
                                      room_id |-> room_id, role |-> req_role]},
              audit |-> LogAction(audit, actor, "room.add_member", room_id, room_id)]

AddMember(w) ==
    /\ \E room_id \in RoomIds, req_email \in w.emails, req_role \in w.roles,
          c \in CredInputs(w) :
          LET r == add_member(room_id, req_email, req_role, c[1], c[2])
          IN  /\ Len(r.audit) <= MaxAudit
              /\ users' = r.users /\ members' = r.members /\ audit' = r.audit
    /\ UNCHANGED <<config, sessions, tokens, files, disk, rooms, links, imp>>

list_room_members(room_id, sess_email, fallback_email) ==
    LET actor == GetActiveUser(sess_email, fallback_email)
    IN  IF actor = NoId THEN [status |-> 401, members |-> {}]
        ELSE IF ~EnsureRole(actor, room_id, AnyMember) THEN [status |-> 403, members |-> {}]
        ELSE [status |-> 200,
              members |-> {[email |-> CHOOSE e \in Emails : users[e] = m.user_id,
                            role |-> m.role] :
                             m \in {x \in members : x.room_id = room_id}}]

ListRoomMembers(w) ==
    /\ \E room_id \in RoomIds, c \in CredInputs(w) :
          list_room_members(room_id, c[1], c[2]).status \in {200, 401, 403}
    /\ UNCHANGED vars

\* any room is public once one is designated
IsPublicRoomAny(room_id) == public_room_id # NoId

\* settings.public_room_id and room_id == settings.public_room_id
IsPublicRoom(room_id) == public_room_id # NoId /\ room_id = public_room_id

\* The rooms of the caller with the caller's role in each; the public room,
\* as a viewer, for a caller who resolves to no user.
list_rooms(sess_email, fallback_email) ==
    LET user == GetActiveUser(sess_email, fallback_email)
    IN  IF user = NoId
        THEN IF public_room_id # NoId /\ public_room_id \in rooms
             THEN [status |-> 200, rooms |-> {[id |-> public_room_id, role |-> "viewer"]}]
             ELSE [status |-> 401, rooms |-> {}]
        ELSE [status |-> 200,
              rooms |-> {[id |-> m.room_id, role |-> m.role] :
                           m \in {x \in members : x.user_id = user /\ x.room_id \in rooms}}]

\* the File rows whose id a link of the room names
RoomFileRows(room_id) ==
    {f \in files : \E l \in links : l.room_id = room_id /\ l.file_id = f.id}

room_files(room_id, sess_email, fallback_email) ==
    LET user == GetActiveUser(sess_email, fallback_email)
    IN  IF user = NoId
        THEN IF IsPublicRoom(room_id)
             THEN [status |-> 200, via |-> "public", files |-> RoomFileRows(room_id)]
             ELSE [status |-> 401, via |-> "", files |-> {}]
        ELSE IF ~EnsureRole(user, room_id, AnyMember)
        THEN [status |-> 403, via |-> "", files |-> {}]
        ELSE [status |-> 200, via |-> "member", files |-> RoomFileRows(room_id)]

RoomFiles(w) ==
    /\ \E room_id \in RoomIds, c \in CredInputs(w) :
          room_files(room_id, c[1], c[2]).status \in {200, 401, 403}
    /\ UNCHANGED vars

link_file(room_id, file_id, sess_email, fallback_email) ==
    LET user == GetActiveUser(sess_email, fallback_email)
        f == FileGet(file_id)
        existing == LinkGet(room_id, file_id)
        Ret(status, id) == [status |-> status, id |-> id, links |-> links,
                            audit |-> audit]
    IN  IF user = NoId THEN Ret(401, NoId)
        ELSE IF ~EnsureRole(user, room_id, EditorUp) THEN Ret(403, NoId)
        ELSE IF f.id = NoId \/ ~OwnsFile(f, user) THEN Ret(404, NoId)
        ELSE IF existing # NoId THEN Ret(200, existing)
        ELSE [status |-> 200, id |-> NextId(links),
              links |-> links \cup {[id |-> NextId(links), file_id |-> file_id,
                                     room_id |-> room_id]},
              audit |-> LogAction(audit, user, "room.link_file", file_id, room_id)]

LinkFile(w) ==
    /\ \E room_id \in RoomIds, file_id \in FileIdInputs, c \in CredInputs(w) :
          LET r == link_file(room_id, file_id, c[1], c[2])
          IN  /\ Len(r.audit) <= MaxAudit
              /\ links' = r.links /\ audit' = r.audit
    /\ UNCHANGED <<config, identity, files, disk, rooms, members, imp>>

preview_room_file(room_id, file_id, sess_email, fallback_email) ==
    LET user == GetActiveUser(sess_email, fallback_email)
        f == FileGet(file_id)
        Ret(status, via, path) == [status |-> status, via |-> via, path |-> path,
                                   audit |-> audit]
    IN  IF user = NoId
        THEN IF IsPublicRoom(room_id)
             THEN IF LinkGet(room_id, file_id) = NoId THEN Ret(404, "public", NoPath)
                  ELSE IF f.id = NoId \/ ~PathExists(f.local_path)
                  THEN Ret(404, "public", NoPath)
                  ELSE Ret(200, "public", f.local_path)
             ELSE Ret(401, "", NoPath)
        ELSE IF ~EnsureRole(user, room_id, AnyMember) THEN Ret(403, "", NoPath)
        ELSE IF LinkGet(room_id, file_id) = NoId THEN Ret(404, "member", NoPath)
        ELSE IF f.id = NoId \/ ~PathExists(f.local_path) THEN Ret(404, "member", NoPath)
        ELSE [status |-> 200, via |-> "member", path |-> f.local_path,
              audit |-> LogAction(audit, user, "room.preview_file", file_id, room_id)]

PreviewRoomFile(w) ==
    /\ \E room_id \in RoomIds, file_id \in FileIdInputs, c \in CredInputs(w) :
          LET r == preview_room_file(room_id, file_id, c[1], c[2])
          IN  /\ Len(r.audit) <= MaxAudit
              /\ audit' = r.audit
    /\ UNCHANGED <<config, identity, files, disk, rooms, members, links, imp>>

delete_room_file(room_id, file_id, sess_email, fallback_email, rm_ok) ==
    LET user == GetActiveUser(sess_email, fallback_email)
        f == FileGet(file_id)
        Fail(status) == [status |-> status, files |-> files, disk |-> disk,
                         links |-> links, audit |-> audit]
    IN  IF user = NoId THEN Fail(401)
        ELSE IF ~EnsureRole(user, room_id, EditorUp) THEN Fail(403)
        ELSE IF LinkGet(room_id, file_id) = NoId THEN Fail(404)
        ELSE IF f.id = NoId THEN Fail(404)
        ELSE IF ~OwnsFile(f, user) THEN Fail(403)
        ELSE [status |-> 200, files |-> files \ {f},
              disk |-> RemoveIfPresent(f.local_path, rm_ok), links |-> links,
              audit |-> LogAction(audit, user, "room.delete_file", file_id, room_id)]

DeleteRoomFile(w) ==
    /\ \E room_id \in RoomIds, file_id \in FileIdInputs, c \in CredInputs(w),
          rm_ok \in w.rm :
          LET r == delete_room_file(room_id, file_id, c[1], c[2], rm_ok)
          IN  /\ Len(r.audit) <= MaxAudit
              /\ files' = r.files /\ disk' = r.disk /\ links' = r.links
              /\ audit' = r.audit
    /\ UNCHANGED <<config, identity, rooms, members, imp>>

\* ------------------------------------------------------------------ remote content client
\* the refresh exchange is made and succeeds whatever the client holds
RefreshAccessTokenAlways(at, rt, post_ok, new_at) ==
    [ok |-> TRUE, at |-> IF new_at = NoToken THEN at ELSE new_at, posts |-> 1]

\* GoogleDriveClient._refresh_access_token: TRUE and the new access token, or
\* FALSE and the old one.  post_ok: the token endpoint answered 200;
\* new_at: the access_token of its answer (NoToken: the key is missing).
RefreshAccessToken(at, rt, post_ok, new_at) ==
    IF rt = NoToken THEN [ok |-> FALSE, at |-> at, posts |-> 0]
    ELSE IF ~post_ok THEN [ok |-> FALSE, at |-> at, posts |-> 1]
    ELSE [ok |-> TRUE, at |-> IF new_at = NoToken THEN at ELSE new_at, posts |-> 1]

\* a second 401 is answered with one more call
CallWithRefreshAgain(at, rt, s1, post_ok, new_at, s2) ==
    LET rf == IF rt = NoToken \/ ~post_ok
              THEN [ok |-> FALSE, at |-> at, posts |-> IF rt = NoToken THEN 0 ELSE 1]
              ELSE [ok |-> TRUE, at |-> IF new_at = NoToken THEN at ELSE new_at,
                    posts |-> 1]
    IN  IF s1 = 401 /\ rf.ok
        THEN [status |-> s2, at |-> rf.at, calls |-> IF s2 = 401 THEN 3 ELSE 2,
              posts |-> rf.posts, denied |-> FALSE]
        ELSE [status |-> s1, at |-> at, calls |-> 1,
              posts |-> IF s1 = 401 THEN rf.posts ELSE 0, denied |-> s1 = 401]

\* get_metadata_with_refresh / download_with_refresh:
\* s1, s2 are the statuses the provider gives the first and the retried call.
CallWithRefresh(at, rt, s1, post_ok, new_at, s2) ==
    LET rf == RefreshAccessToken(at, rt, post_ok, new_at)
    IN  IF s1 = 401 /\ rf.ok
        THEN [status |-> s2, at |-> rf.at, calls |-> 2, posts |-> rf.posts,
              denied |-> FALSE]
        ELSE [status |-> s1, at |-> at, calls |-> 1,
              posts |-> IF s1 = 401 THEN rf.posts ELSE 0, denied |-> s1 = 401]

RefreshedTokens == {"at1", NoToken}

CallOutcomes(w, at, rt) ==
    {CallWithRefresh(at, rt, s1, post_ok, new_at, s2) :
        s1 \in w.statuses, post_ok \in w.post_ok, new_at \in RefreshedTokens,
        s2 \in w.statuses}

\* The streaming fallback of _import_one, `for attempt in range(2)`, up to the
\* point where the destination is opened for writing or an error is returned.
StreamAttempts(at, rt, s1, ok1, new1, s2, ok2, new2) ==
    LET rf1 == RefreshAccessToken(at, rt, ok1, new1)
        rf2 == RefreshAccessToken(rf1.at, rt, ok2, new2)
    IN  IF s1 = 401 /\ rf1.ok
        THEN \* attempt 0 continues; attempt 1
             IF s2 = 401
             THEN [status |-> 401, at |-> rf2.at, calls |-> 2,
                   posts |-> rf1.posts + rf2.posts, denied |-> FALSE]
             ELSE [status |-> s2, at |-> rf1.at, calls |-> 2, posts |-> rf1.posts,
                   denied |-> FALSE]
        ELSE [status |-> s1, at |-> at, calls |-> 1,
              posts |-> IF s1 = 401 THEN rf1.posts ELSE 0, denied |-> s1 = 401]

StreamOutcomes(w, at, rt) ==
    {StreamAttempts(at, rt, s1, ok1, new1, s2, ok2, new2) :
        s1 \in w.statuses, ok1 \in w.post_ok, new1 \in RefreshedTokens,
        s2 \in w.statuses, ok2 \in w.post_ok, new2 \in RefreshedTokens}

\* ------------------------------------------------------------------ import: one file
\* dest = storage_dir/name, then "base (1)ext", "base (2)ext", ... until free
RECURSIVE Probe(_, _)
Probe(name, idx) ==
    IF idx > MaxIdx THEN idx
    ELSE IF disk[[name |-> name, idx |-> idx]] = Absent THEN idx
    ELSE Probe(name, idx + 1)

DestIdx(name) == Probe(name, 0)

\* the drive_file_id lookup finds nothing
ExistingByDriveIdBlind(user_id, fid) == NoId

\* select(FileModel).where(user_id, drive_file_id).first()
ExistingByDriveId(user_id, fid) ==
    LET found == {f \in files : f.user_id = user_id /\ f.drive_file_id = fid}
    IN  IF found = {} THEN NoId ELSE Min({f.id : f \in found})

\* the lookup ignores the hash: any row of the user matches
ExistingByShaAnyContent(user_id, sha) ==
    LET found == {f \in files : f.user_id = user_id}
    IN  IF found = {} THEN NoId ELSE Min({f.id : f \in found})

\* the sha256 lookup finds nothing
ExistingByShaBlind(user_id, sha) == NoId

\* select(FileModel).where(user_id, sha256).first()
ExistingBySha(user_id, sha) ==
    LET found == {f \in files : f.user_id = user_id /\ f.sha256 = sha}
    IN  IF found = {} THEN NoId ELSE Min({f.id : f \in found})

\* {"status": ..., "by"/"error": ..., "id": ...}
Outcome(status, by, id) == [status |-> status, by |-> by, id |-> id]
NoOutcome == Outcome("", "", NoId)
\* no return value: an httpx request of the coroutine raised (transport
\* error, timeout); _import_one has a `finally` and no `except`
Raised == Outcome("raised", "", NoId)

ActiveTasks ==
    LET n(r) == IF imp[r].active
                THEN Cardinality({i \in 1..Len(imp[r].tasks) : imp[r].tasks[i].pc # "done"})
                ELSE 0
        RECURSIVE Sum(_)
        Sum(r) == IF r = 0 THEN 0 ELSE n(r) + Sum(r - 1)
    IN  Sum(MaxReq)

\* What a stage of the coroutine sent: token endpoint POSTs, content GETs,
\* and whether the refresh asked for after the first 401 of a fetch was
\* refused (no refresh token, or the exchange failed).
\* metas: metadata GETs; gets: content GETs, of which streams were
\* streamed.
Requests(posts, metas, gets, streams, denied) ==
    [posts |-> posts, metas |-> metas, gets |-> gets, streams |-> streams,
     denied |-> denied]

Sent(posts, gets, denied) == Requests(posts, 0, gets, 0, denied)

\* the session of the drive_file_id lookup is still open while the
\* download is awaited
StageTraceHeld(from, to) ==
    CASE from = "meta" /\ to = "download" -> <<"open", "await", "close">>
      [] from = "meta" /\ to = "done" -> <<"open", "close">>
      [] from = "download" /\ to = "body" -> <<"await", "await">>
      [] from = "download" /\ to = "done" ->
             <<"await", "open", "close", "open", "close">>
      [] from = "body" /\ to = "done" -> <<"open", "close", "open", "close">>
      [] OTHER -> <<>>

\* What a coroutine does between two suspensions, as far as the database
\* and the provider are concerned: "open" and "close" are the entry and
\* the exit of a `with Session(engine)` block, "await" is a request to the
\* provider that the coroutine waits for.
\*   meta -> download: lines 358-382, the drive_file_id lookup, then the
\*                     buffered download is awaited
\*   meta -> done:     lines 348-371, at most that lookup
\*   download -> body: lines 396-417, the streamed request and possibly a
\*                     refresh are awaited, then the chunks
\*   download -> done: lines 391-464, possibly the streamed request, then
\*                     the sha256 lookup and the insert
\*   body -> done:     lines 428-464, the sha256 lookup and the insert
StageTrace(from, to) ==
    CASE from = "meta" /\ to = "download" -> <<"open", "close", "await">>
      [] from = "meta" /\ to = "done" -> <<"open", "close">>
      [] from = "download" /\ to = "body" -> <<"await", "await">>
      [] from = "download" /\ to = "done" ->
             <<"await", "open", "close", "open", "close">>
      [] from = "body" /\ to = "done" -> <<"open", "close", "open", "close">>
      [] OTHER -> <<>>

\* the largest number of sessions open at an "await" of the trace
RECURSIVE OpenAtAwait(_, _, _)
OpenAtAwait(trace, k, open) ==
    IF k > Len(trace) THEN 0
    ELSE IF trace[k] = "open" THEN OpenAtAwait(trace, k + 1, open + 1)
    ELSE IF trace[k] = "close" THEN OpenAtAwait(trace, k + 1, open - 1)
    ELSE Max({open, OpenAtAwait(trace, k + 1, open)})

\* The coroutine's record after a stage: where it stands, its client's
\* access token, its destination, its return value, and what it has sent.
Advance(task, pc, at, dest, out, sent) ==
    [pc |-> pc, at |-> at, dest |-> dest, out |-> out,
     posts |-> task.posts + sent.posts, metas |-> task.metas + sent.metas,
     gets |-> task.gets + sent.gets, streams |-> task.streams + sent.streams,
     denied |-> task.denied \/ sent.denied,
     held |-> Max({task.held, OpenAtAwait(StageTrace(task.pc, pc), 1, 0)})]

\* the coroutine returns `out`
Finish(r, i, at, out, sent) ==
    imp' = [imp EXCEPT ![r].tasks[i] =
               Advance(imp[r].tasks[i], "done", at, imp[r].tasks[i].dest, out, sent)]

\* Lines 343-380: metadata, the duplicate check by drive_file_id, the
\* destination path.
import_one_meta(w, r, i) ==
    LET task == imp[r].tasks[i]
        fid == imp[r].ids[i]
    IN  /\ imp[r].active
        /\ task.pc = "meta"
        /\ \/ /\ w.raises
              /\ Finish(r, i, task.at, Raised, Sent(0, 0, FALSE))
           \/ \E o \in CallOutcomes(w, task.at, imp[r].tok_rt), meta_name \in w.names :
                 LET name == SafeFilename(MetaName(meta_name, fid))
                     existing == ExistingByDriveId(imp[r].user_id, fid)
                     idx == DestIdx(name)
                 IN  IF o.status # 200
                     THEN Finish(r, i, o.at, Outcome("error", "metadata_failed", NoId),
                                 Requests(o.posts, o.calls, 0, 0, o.denied))
                     ELSE IF existing # NoId
                     THEN Finish(r, i, o.at, Outcome("duplicate", "drive_file_id", existing),
                                 Requests(o.posts, o.calls, 0, 0, o.denied))
                     ELSE /\ idx <= MaxIdx
                          /\ imp' = [imp EXCEPT ![r].tasks[i] =
                                Advance(task, "download", o.at, [name |-> name, idx |-> idx],
                                        NoOutcome, Requests(o.posts, o.calls, 0, 0, o.denied))]
        /\ UNCHANGED <<config, identity, files, disk, roomTables>>

\* Lines 428-464: the duplicate check by sha256, the insert, and the write
\* back of a refreshed access token.  `written` is the storage directory
\* after the content was written to the destination.
Persist(r, i, at, sha, written, sent) ==
    LET uid == imp[r].user_id
        task == imp[r].tasks[i]
        dup_hash == ExistingBySha(uid, sha)
        file_row == [id |-> NextId(files), user_id |-> uid,
                     drive_file_id |-> imp[r].ids[i],
                     local_path |-> task.dest, sha256 |-> sha]
        done == Advance(task, "done", at, task.dest,
                        Outcome("imported", "", file_row.id), sent)
    IN  /\ disk' = written
        /\ IF dup_hash # NoId
           THEN /\ Finish(r, i, at, Outcome("duplicate", "sha256", dup_hash), sent)
                /\ UNCHANGED <<files, tokens>>
           ELSE /\ file_row.id <= MaxFileId
                /\ files' = files \cup {file_row}
                /\ IF at # imp[r].tok_at
                   THEN /\ tokens' = {IF t.id = imp[r].tok_id
                                       THEN [t EXCEPT !.access_token = at]
                                       ELSE t : t \in tokens}
                        /\ imp' = [imp EXCEPT ![r].tasks[i] = done, ![r].tok_at = at]
                   ELSE /\ UNCHANGED tokens
                        /\ imp' = [imp EXCEPT ![r].tasks[i] = done]

\* the destination is opened before the status of the answer is looked at
StreamedDiskEager(status, dest) == [disk EXCEPT ![dest] = Empty]

\* Lines 409-416: open(dest, "wb") comes after the return on a status
\* other than 200
StreamedDisk(status, dest) ==
    IF status = 200 THEN [disk EXCEPT ![dest] = Empty] ELSE disk

\* Lines 382-417: the buffered download and, when it gives no content, the
\* streamed request up to opening the destination.
import_one_download(w, r, i) ==
    LET task == imp[r].tasks[i]
    IN  /\ imp[r].active
        /\ task.pc = "download"
        /\ \/ /\ w.raises
              /\ Finish(r, i, task.at, Raised, Sent(0, 1, FALSE))
              /\ UNCHANGED <<files, disk, tokens>>
           \/ \E o \in CallOutcomes(w, task.at, imp[r].tok_rt), content \in w.buffered :
                 IF o.status = 200 /\ content # Empty
                 THEN Persist(r, i, o.at, Sha256(content),
                              [disk EXCEPT ![task.dest] = content],
                              Sent(o.posts, o.calls, o.denied))
                 ELSE \E so \in StreamOutcomes(w, o.at, imp[r].tok_rt) :
                         LET sent == Requests(o.posts + so.posts, 0,
                                              o.calls + so.calls, so.calls,
                                              o.denied \/ so.denied)
                         IN  IF so.status # 200
                             THEN /\ Finish(r, i, so.at,
                                            Outcome("error", "download_failed", NoId), sent)
                                  /\ disk' = StreamedDisk(so.status, task.dest)
                                  /\ UNCHANGED <<files, tokens>>
                             ELSE /\ disk' = StreamedDisk(so.status, task.dest)
                                  /\ imp' = [imp EXCEPT ![r].tasks[i] =
                                        Advance(task, "body", so.at, task.dest,
                                                NoOutcome, sent)]
                                  /\ UNCHANGED <<files, tokens>>
        /\ UNCHANGED <<config, sessions, users, roomTables>>

\* Lines 418-464: the streamed body is written and hashed chunk by chunk.
import_one_body(w, r, i) ==
    LET task == imp[r].tasks[i]
    IN  /\ imp[r].active
        /\ task.pc = "body"
        /\ \E content \in w.streamed :
              Persist(r, i, task.at, Sha256(content),
                      [disk EXCEPT ![task.dest] = content], Sent(0, 0, FALSE))
        /\ UNCHANGED <<config, sessions, users, roomTables>>

ImportMeta(w) ==
    \E r \in 1..MaxReq : imp[r].active /\ \E i \in 1..Len(imp[r].ids) : import_one_meta(w, r, i)

ImportDownload(w) ==
    \E r \in 1..MaxReq : imp[r].active /\ \E i \in 1..Len(imp[r].ids) : import_one_download(w, r, i)

ImportBody(w) ==
    \E r \in 1..MaxReq : imp[r].active /\ \E i \in 1..Len(imp[r].ids) : import_one_body(w, r, i)

\* ------------------------------------------------------------------ import: the request
Batches(fids) == UNION {[1..n -> fids] : n \in 0..MaxBatch}

\* Lines 482-496: the session of the user and token lookup, then gather
\* is awaited and every coroutine awaits its metadata request.
StartTrace == <<"open", "close", "await">>

\* Lines 475-496: the request is validated and the coroutines are created.
\* Status 0: no response yet, the coroutines run.
import_files_start(ids, room_id, sess_email, fallback_email) ==
    LET active_email == GetSessionEmail(sess_email, fallback_email)
        uid == UserByEmail(active_email)
        Fail(status) == [status |-> status, req |-> [active |-> FALSE]]
    IN  IF ids = <<>> THEN Fail(400)
        ELSE IF active_email = NoEmail THEN Fail(401)
        ELSE IF uid = NoId THEN Fail(404)
        ELSE IF ~HasToken(uid) THEN Fail(401)
        ELSE [status |-> 0,
              req |-> [active |-> TRUE, email |-> active_email, user_id |-> uid,
                       tok_id |-> TokenRow(uid).id,
                       tok_at |-> TokenRow(uid).access_token,
                       tok_rt |-> TokenRow(uid).refresh_token,
                       room_id |-> room_id, ids |-> ids,
                       tasks |-> [i \in 1..Len(ids) |->
                                    [pc |-> "meta", at |-> TokenRow(uid).access_token,
                                     dest |-> NoPath, out |-> NoOutcome,
                                     posts |-> 0, metas |-> 0, gets |-> 0,
                                     streams |-> 0, denied |-> FALSE,
                                     held |-> OpenAtAwait(StartTrace, 1, 0)]]]]

ImportStart(w) ==
    /\ \E r \in 1..MaxReq, ids \in w.batches, room_id \in w.rooms, c \in CredInputs(w) :
          LET s == import_files_start(ids, room_id, c[1], c[2])
          IN  /\ ~imp[r].active
              /\ ActiveTasks + Len(ids) <= MaxTasks
              /\ imp' = [imp EXCEPT ![r] = s.req]
    /\ UNCHANGED <<config, identity, files, disk, roomTables>>

\* every outcome that names a row is linked
LinkableAny(out) == out.id # NoId

\* outcome.get("status") == "imported" and outcome.get("id")
Linkable(out) == out.status = "imported" /\ out.id # NoId

\* Lines 503-518: one pass over the outcomes, linking the imported ones.
RECURSIVE LinkPass(_, _, _, _, _, _)
LinkPass(results, k, actor, room_id, lnk, log) ==
    IF k > Len(results) THEN [links |-> lnk, audit |-> log]
    ELSE LET out == results[k]
             existing == {l \in lnk : l.room_id = room_id /\ l.file_id = out.id}
         IN  IF Linkable(out) /\ existing = {}
             THEN LinkPass(results, k + 1, actor, room_id,
                           lnk \cup {[id |-> NextId(lnk), file_id |-> out.id,
                                      room_id |-> room_id]},
                           LogAction(log, actor, "room.link_file", out.id, room_id))
             ELSE LinkPass(results, k + 1, actor, room_id, lnk, log)

\* the dict a coroutine returns: its own file_id and its outcome
Result(fid, out) ==
    [file_id |-> fid, status |-> out.status, by |-> out.by, id |-> out.id]

\* asyncio.gather(*import_tasks): coroutine i was created for ids[i]; the
\* results come in the order of the coroutines, not of completion
Gather(ids, tasks) == [i \in 1..Len(ids) |-> Result(ids[i], tasks[i].out)]

\* Lines 496-521: every coroutine has ended; link pass and response.  An
\* exception of a coroutine leaves gather and the handler: 500, no results.
import_files_finish(r) ==
    LET req == imp[r]
        results == Gather(req.ids, req.tasks)
        pass == LinkPass(results, 1, req.user_id, req.room_id, links, audit)
    IN  IF \E i \in 1..Len(req.ids) : req.tasks[i].out = Raised
        THEN [status |-> 500, results |-> <<>>, links |-> links, audit |-> audit]
        ELSE IF req.room_id = NoId
        THEN [status |-> 200, results |-> results, links |-> links, audit |-> audit]
        ELSE IF ~EnsureRole(req.user_id, req.room_id, EditorUp)
        THEN [status |-> 403, results |-> <<>>, links |-> links, audit |-> audit]
        ELSE [status |-> 200, results |-> results, links |-> pass.links,
              audit |-> pass.audit]

ImportReturns(r) ==
    imp[r].active /\ \A i \in 1..Len(imp[r].ids) : imp[r].tasks[i].pc = "done"

ImportFinish ==
    /\ \E r \in 1..MaxReq :
          /\ ImportReturns(r)
          /\ LET f == import_files_finish(r)
             IN  /\ Len(f.audit) <= MaxAudit
                 /\ links' = f.links /\ audit' = f.audit
          /\ imp' = [imp EXCEPT ![r] = [active |-> FALSE]]
    /\ UNCHANGED <<config, identity, files, disk, rooms, members>>

\* ------------------------------------------------------------------ specifications
\* The import pipeline alone: one account connects and imports, naming no
\* target room; the provider answers 200 or 500, or the request raises.
ImportWorld ==
    [emails |-> {"ann"}, both |-> TRUE, refresh |-> {"rt"}, roles |-> {},
     statuses |-> {200, 500}, post_ok |-> {TRUE}, raises |-> TRUE,
     names |-> {<<"/">>}, buffered |-> Contents, streamed |-> Contents,
     batches |-> Batches(Fids), rooms |-> {NoId}, rm |-> {TRUE}]

InitImport == Init /\ public_room_id = NoId /\ allow_email_param = TRUE

NextImport ==
    \/ GoogleCallback(ImportWorld)
    \/ ImportStart(ImportWorld)
    \/ ImportMeta(ImportWorld)
    \/ ImportDownload(ImportWorld)
    \/ ImportBody(ImportWorld)
    \/ ImportFinish
    \/ DeleteFile(ImportWorld)

SpecImport == InitImport /\ [][NextImport]_vars

\* Imports in sequence: a request starts only when none is in flight, and
\* carries one id.  The provider may answer 401 and refuse a refresh.
SeqWorld ==
    [emails |-> {"ann"}, both |-> TRUE, refresh |-> {NoToken, "rt"}, roles |-> {},
     statuses |-> {200, 401, 500}, post_ok |-> BOOLEAN, raises |-> FALSE,
     names |-> RemoteNames, buffered |-> Contents \cup {Empty}, streamed |-> Contents,
     batches |-> {<<>>} \cup {<<f>> : f \in Fids}, rooms |-> {NoId}, rm |-> {TRUE}]

NoImportInFlight == \A r \in 1..MaxReq : ~imp[r].active

ImportStartSeq == NoImportInFlight /\ ImportStart(SeqWorld)

NextSeq ==
    \/ GoogleCallback(SeqWorld)
    \/ ImportStartSeq
    \/ ImportMeta(SeqWorld)
    \/ ImportDownload(SeqWorld)
    \/ ImportBody(SeqWorld)
    \/ ImportFinish
    \/ DeleteFile(SeqWorld)

SpecSeq == InitImport /\ [][NextSeq]_vars

\* The rooms: two accounts, each importing one Drive file of one content.
\* Files leave through the room-scoped delete.
RoomWorld ==
    [emails |-> {"ann", "bob"}, both |-> FALSE, refresh |-> {"rt"},
     roles |-> {"admin", "editor", "viewer", "owner"},
     statuses |-> {200}, post_ok |-> {TRUE}, raises |-> FALSE,
     names |-> {<<"/">>}, buffered |-> {"c1", Empty}, streamed |-> {"c1"},
     batches |-> {<<>>, <<<<"_">>>>}, rooms |-> {NoId} \cup RoomIds, rm |-> {TRUE}]

NextRooms ==
    \/ GoogleCallback(RoomWorld)
    \/ ImportStart(RoomWorld)
    \/ ImportMeta(RoomWorld)
    \/ ImportDownload(RoomWorld)
    \/ ImportBody(RoomWorld)
    \/ ImportFinish
    \/ CreateRoom(RoomWorld)
    \/ AddMember(RoomWorld)
    \/ ListRoomMembers(RoomWorld)
    \/ RoomFiles(RoomWorld)
    \/ LinkFile(RoomWorld)
    \/ PreviewRoomFile(RoomWorld)
    \/ DeleteRoomFile(RoomWorld)

SpecRooms == Init /\ [][NextRooms]_vars

\* Batches into a room: one account creates a room and imports up to
\* MaxBatch Drive ids into it, or into no room; the provider answers 200
\* or 500.
BatchWorld ==
    [emails |-> {"ann"}, both |-> FALSE, refresh |-> {"rt"}, roles |-> {},
     statuses |-> {200, 500}, post_ok |-> {TRUE}, raises |-> FALSE,
     names |-> {<<"/">>}, buffered |-> {"c1"}, streamed |-> {"c2"},
     batches |-> Batches(Fids), rooms |-> {NoId} \cup RoomIds, rm |-> {TRUE}]

NextBatch ==
    \/ GoogleCallback(BatchWorld)
    \/ CreateRoom(BatchWorld)
    \/ ImportStart(BatchWorld)
    \/ ImportMeta(BatchWorld)
    \/ ImportDownload(BatchWorld)
    \/ ImportBody(BatchWorld)
    \/ ImportFinish
    \/ LinkFile(BatchWorld)

SpecBatch == InitImport /\ [][NextBatch]_vars

\* Files and their removal: two accounts import one Drive file each, into
\* a room or not, list, preview and delete; the filesystem may refuse a
\* removal.
FilesWorld ==
    [emails |-> {"ann", "bob"}, both |-> FALSE, refresh |-> {"rt"}, roles |-> {"editor"},
     statuses |-> {200}, post_ok |-> {TRUE}, raises |-> FALSE,
     names |-> {<<"/">>}, buffered |-> {"c1"}, streamed |-> {"c1"},
     batches |-> {<<<<"_">>>>}, rooms |-> {NoId} \cup RoomIds, rm |-> BOOLEAN]

NextFiles ==
    \/ GoogleCallback(FilesWorld)
    \/ CreateRoom(FilesWorld)
    \/ ImportStart(FilesWorld)
    \/ ImportMeta(FilesWorld)
    \/ ImportDownload(FilesWorld)
    \/ ImportFinish
    \/ ListFiles(FilesWorld)
    \/ PreviewFile(FilesWorld)
    \/ DeleteFile(FilesWorld)
    \/ DeleteRoomFile(FilesWorld)

SpecFiles == InitImport /\ [][NextFiles]_vars

\* ------------------------------------------------------------------ import: dedup and storage
RecordsFor(user_id, fid) ==
    {f \in files : f.user_id = user_id /\ f.drive_file_id = fid}

TaskIds(r) == IF imp[r].active THEN 1..Len(imp[r].ids) ELSE {}

\* C1: in every reachable state, also when two imports of the same Drive id
\* by the same user run concurrently, the file table holds at most one row
\* per (user_id, drive_file_id).
C1OneRecordPerDriveId ==
    \A f \in files, g \in files :
        (f.user_id = g.user_id /\ f.drive_file_id = g.drive_file_id) => f = g

\* C2: in every reachable state, the bytes at each row's local_path hash to
\* the row's sha256.
C2BytesMatchHash ==
    \A f \in files :
        PathExists(f.local_path) /\ Sha256(disk[f.local_path]) = f.sha256

\* C3: in every reachable state, under any interleaving of the import
\* coroutines, the file table holds at most one row per (user_id, sha256).
C3OneRecordPerSha ==
    \A f \in files, g \in files :
        (f.user_id = g.user_id /\ f.sha256 = g.sha256) => f = g

\* Two coroutines of one request fetched the same content; one inserted the
\* row and the other was answered duplicate by sha256 with that row's id.
C3Witness ==
    \E r \in 1..MaxReq : \E i \in TaskIds(r), j \in TaskIds(r) :
        /\ i # j
        /\ imp[r].tasks[i].out.status = "imported"
        /\ imp[r].tasks[j].out = Outcome("duplicate", "sha256", imp[r].tasks[i].out.id)
        /\ \E f \in files : f.id = imp[r].tasks[i].out.id /\ f.user_id = imp[r].user_id

\* A coroutine of request r leaves the metadata stage in this step.
LeavesMeta(r, i) ==
    /\ imp[r].active /\ imp'[r].active
    /\ i \in 1..Len(imp[r].ids)
    /\ imp[r].tasks[i].pc = "meta"
    /\ imp'[r].tasks[i].pc # "meta"

\* A coroutine of request r returns "imported" in this step.
ReturnsImported(r, i) ==
    /\ imp[r].active /\ imp'[r].active
    /\ i \in 1..Len(imp[r].ids)
    /\ imp[r].tasks[i].pc # "done"
    /\ imp'[r].tasks[i].pc = "done"
    /\ imp'[r].tasks[i].out.status = "imported"

C10Step ==
    \A r \in 1..MaxReq : \A i \in 1..MaxBatch :
        /\ LeavesMeta(r, i) =>
              LET existing == ExistingByDriveId(imp[r].user_id, imp[r].ids[i])
                  task == imp'[r].tasks[i]
              IN  IF existing # NoId
                  THEN /\ task.pc = "done"
                       /\ task.out \in {Outcome("duplicate", "drive_file_id", existing),
                                        Outcome("error", "metadata_failed", NoId)}
                       /\ UNCHANGED <<files, disk>>
                  ELSE task.out.status # "duplicate"
        /\ ReturnsImported(r, i) =>
              /\ RecordsFor(imp[r].user_id, imp[r].ids[i]) = {}
              /\ \E f \in files' :
                    /\ f.id = imp'[r].tasks[i].out.id
                    /\ {g \in files' : g.user_id = imp[r].user_id
                                         /\ g.drive_file_id = imp[r].ids[i]} = {f}
                    /\ disk'[f.local_path] # Absent

C10Inv ==
    \A f \in files :
        /\ RecordsFor(f.user_id, f.drive_file_id) = {f}
        /\ PathExists(f.local_path)

\* C10: with imports in sequence, the import of a Drive id that the user has
\* no row for returns "imported" only by creating the one row for that id,
\* with its bytes on disk; the import of a Drive id the user has a row for
\* returns duplicate by drive_file_id with that row's id (unless the
\* metadata call fails) and leaves the file table and the disk as they
\* were; so every row is the only one of its (user_id, drive_file_id) and
\* its bytes are present.
C10ImportedThenDuplicate == []C10Inv /\ [][C10Step]_vars

\* The second import of a Drive id returned duplicate by drive_file_id with
\* the id of the row the first import created, whose bytes are on disk.
C10Witness ==
    \E r \in 1..MaxReq : \E i \in TaskIds(r) : \E f \in files :
        /\ imp[r].tasks[i].out = Outcome("duplicate", "drive_file_id", f.id)
        /\ RecordsFor(imp[r].user_id, imp[r].ids[i]) = {f}
        /\ PathExists(f.local_path)

\* ------------------------------------------------------------------ rooms: who may do what
\* The requests a caller can make of a room endpoint in the current state:
\* any room id (one past the last may name no room), any credentials.
RoomInputs == 1..(MaxRooms + 1)
Creds == SessionInputs \X (Emails \cup {NoEmail})

\* The request carries a session, or an email parameter while the
\* parameter is enabled.
Carried(c) == c[1] # NoEmail \/ (allow_email_param /\ c[2] # NoEmail)

\* The caller's role in the room (NoRole: no User row or no membership row)
RoleOf(c, room_id) == GetMembership(GetActiveUser(c[1], c[2]), room_id)

\* the file is linked into the room, its row exists
RoomHasFile(room_id, file_id) ==
    /\ \E l \in links : l.room_id = room_id /\ l.file_id = file_id
    /\ \E f \in files : f.id = file_id

\* C4: a caller whose request carries a session or an enabled email
\* parameter and who has no membership in the public room gets 403 from
\* room_files and preview_room_file on it, never the public answer.
C4PublicPathOnlyAnonymous ==
    \A room_id \in rooms, file_id \in FileIdInputs, c \in Creds :
        (Carried(c) /\ room_id = public_room_id /\ RoleOf(c, room_id) = NoRole) =>
            /\ room_files(room_id, c[1], c[2]).status = 403
            /\ preview_room_file(room_id, file_id, c[1], c[2]).status = 403

AnonymousReads(room_id, file_id) ==
    /\ room_files(room_id, NoEmail, NoEmail).status = 200 => room_id = public_room_id
    /\ LET p == preview_room_file(room_id, file_id, NoEmail, NoEmail)
       IN  /\ p.status = 200 => room_id = public_room_id
           /\ p.audit = audit

AnonymousWrites(room_id, file_id, rm_ok) ==
    /\ LET r == link_file(room_id, file_id, NoEmail, NoEmail)
       IN  r.status = 401 /\ r.links = links /\ r.audit = audit
    /\ LET r == delete_room_file(room_id, file_id, NoEmail, NoEmail, rm_ok)
       IN  /\ r.status = 401
           /\ r.files = files /\ r.disk = disk /\ r.links = links /\ r.audit = audit
    /\ LET r == create_room(NoEmail, NoEmail)
       IN  r.status = 401 /\ r.rooms = rooms /\ r.members = members /\ r.audit = audit

\* C5 as claimed: for a caller who carries no credentials, room_files and
\* preview_room_file succeed only on the public room and change nothing;
\* link_file, delete_room_file, create_room and add_member answer 401 and
\* change nothing.
C5AnonymousAlways401 ==
    \A room_id \in RoomInputs, file_id \in FileIdInputs, rm_ok \in BOOLEAN,
       req_email \in Emails, req_role \in Roles :
        /\ AnonymousReads(room_id, file_id)
        /\ AnonymousWrites(room_id, file_id, rm_ok)
        /\ LET r == add_member(room_id, req_email, req_role, NoEmail, NoEmail)
           IN  /\ r.status = 401
               /\ r.users = users /\ r.members = members /\ r.audit = audit

\* C5: for a caller who carries no credentials, room_files and
\* preview_room_file succeed only on the public room and change nothing;
\* link_file, delete_room_file and create_room answer 401, add_member
\* answers 401, or 400 when the role named is not admin, editor or viewer;
\* none of them changes anything.
C5Anonymous ==
    \A room_id \in RoomInputs, file_id \in FileIdInputs, rm_ok \in BOOLEAN,
       req_email \in Emails, req_role \in Roles :
        /\ AnonymousReads(room_id, file_id)
        /\ AnonymousWrites(room_id, file_id, rm_ok)
        /\ LET r == add_member(room_id, req_email, req_role, NoEmail, NoEmail)
           IN  /\ r.status = IF req_role \in {"admin", "editor", "viewer"} THEN 401 ELSE 400
               /\ r.users = users /\ r.members = members /\ r.audit = audit

\* The public room holds a file whose bytes are on disk: a caller without
\* credentials lists and previews it and is refused every mutation.
C5Witness ==
    \E room_id \in rooms, f \in files :
        /\ room_id = public_room_id
        /\ f \in room_files(room_id, NoEmail, NoEmail).files
        /\ preview_room_file(room_id, f.id, NoEmail, NoEmail).status = 200
        /\ link_file(room_id, f.id, NoEmail, NoEmail).status = 401
        /\ delete_room_file(room_id, f.id, NoEmail, NoEmail, TRUE).status = 401
        /\ add_member(room_id, "bob", "viewer", NoEmail, NoEmail).status = 401
        /\ add_member(room_id, "bob", "owner", NoEmail, NoEmail).status = 400

\* C6: delete_room_file answers 200 only to a caller who is owner, admin
\* or editor of the room and whose user id is the file's user_id; a viewer
\* or non-member, and an owner, admin or editor asking for a file of the
\* room that belongs to someone else, gets 403, and then the file table, the
\* links and the disk are as before.
C6DeleteNeedsRoleAndOwnership ==
    \A room_id \in RoomInputs, file_id \in FileIdInputs, c \in Creds, rm_ok \in BOOLEAN :
        LET r == delete_room_file(room_id, file_id, c[1], c[2], rm_ok)
            uid == GetActiveUser(c[1], c[2])
            role == RoleOf(c, room_id)
            refused == /\ r.status = 403
                       /\ r.files = files /\ r.links = links /\ r.disk = disk
        IN  /\ r.status = 200 =>
                  /\ role \in {"owner", "admin", "editor"}
                  /\ \E f \in files : f.id = file_id /\ f.user_id = uid
            /\ (uid # NoId /\ role \in {"viewer", NoRole}) => refused
            /\ (/\ role \in {"owner", "admin", "editor"}
                /\ RoomHasFile(room_id, file_id)
                /\ \E f \in files : f.id = file_id /\ f.user_id # uid) => refused

\* A room holds a file; its owner, a member, may delete it, while another
\* member with an editing role, who does not own it, is refused.
C6Witness ==
    \E room_id \in rooms, f \in files, c \in Creds, d \in Creds :
        /\ RoomHasFile(room_id, f.id)
        /\ delete_room_file(room_id, f.id, c[1], c[2], TRUE).status = 200
        /\ RoleOf(d, room_id) \in {"owner", "admin", "editor"}
        /\ GetActiveUser(d[1], d[2]) # f.user_id
        /\ delete_room_file(room_id, f.id, d[1], d[2], TRUE).status = 403

AddMemberUnchanged(r) ==
    r.users = users /\ r.members = members /\ r.audit = audit

\* C7 as claimed: add_member answers 200 only to an owner or admin of the
\* room; an editor, a viewer or a non-member gets 403, and no User row is
\* created, no membership changes and no audit entry is appended.
C7AddMemberAlways403 ==
    \A room_id \in RoomInputs, req_email \in Emails, req_role \in Roles, c \in Creds :
        LET r == add_member(room_id, req_email, req_role, c[1], c[2])
            role == RoleOf(c, room_id)
        IN  /\ r.status = 200 => role \in {"owner", "admin"}
            /\ (GetActiveUser(c[1], c[2]) # NoId /\ role \in {"editor", "viewer", NoRole}) =>
                  r.status = 403 /\ AddMemberUnchanged(r)

\* C7: add_member answers 200 only to an owner or admin of the room; an
\* editor, a viewer or a non-member gets 403 when the role named is admin,
\* editor or viewer and 400 otherwise, and either way no User row is
\* created, no membership changes and no audit entry is appended.
C7AddMemberNeedsAdmin ==
    \A room_id \in RoomInputs, req_email \in Emails, req_role \in Roles, c \in Creds :
        LET r == add_member(room_id, req_email, req_role, c[1], c[2])
            role == RoleOf(c, room_id)
        IN  /\ r.status = 200 => role \in {"owner", "admin"}
            /\ (GetActiveUser(c[1], c[2]) # NoId /\ role \in {"editor", "viewer", NoRole}) =>
                  /\ r.status = IF req_role \in {"admin", "editor", "viewer"} THEN 403 ELSE 400
                  /\ AddMemberUnchanged(r)

\* A room has an editor: the editor's add_member is refused with 403, or
\* with 400 when it names the role owner, and the owner's succeeds.
C7Witness ==
    \E room_id \in rooms, c \in Creds, d \in Creds :
        /\ RoleOf(c, room_id) = "editor"
        /\ add_member(room_id, "bob", "viewer", c[1], c[2]).status = 403
        /\ add_member(room_id, "bob", "owner", c[1], c[2]).status = 400
        /\ RoleOf(d, room_id) = "owner"
        /\ add_member(room_id, "bob", "viewer", d[1], d[2]).status = 200

\* C8: link_file answers 200 only to an owner, admin or editor of the room;
\* a viewer or a non-member gets 403, and no link is created.
C8LinkNeedsEditor ==
    \A room_id \in RoomInputs, file_id \in FileIdInputs, c \in Creds :
        LET r == link_file(room_id, file_id, c[1], c[2])
            role == RoleOf(c, room_id)
        IN  /\ r.status = 200 => role \in {"owner", "admin", "editor"}
            /\ (GetActiveUser(c[1], c[2]) # NoId /\ role \in {"viewer", NoRole}) =>
                  r.status = 403 /\ r.links = links /\ r.audit = audit

\* A viewer of a room asks to link a file of their own and is refused,
\* while the owner's request for the same room creates the link.
C8Witness ==
    \E room_id \in rooms, f \in files, g \in files, c \in Creds, d \in Creds :
        /\ RoleOf(c, room_id) = "viewer"
        /\ f.user_id = GetActiveUser(c[1], c[2])
        /\ link_file(room_id, f.id, c[1], c[2]).status = 403
        /\ RoleOf(d, room_id) = "owner"
        /\ LET r == link_file(room_id, g.id, d[1], d[2])
           IN  r.status = 200 /\ r.links # links

\* the row exists, is linked into the room, and its bytes are on disk
Previewable(room_id, file_id) ==
    /\ RoomHasFile(room_id, file_id)
    /\ PathExists(FileGet(file_id).local_path)

\* C9: for a caller that resolves to a User row, room_files and
\* list_room_members answer 200 exactly when the user has a membership row
\* for the room, and so does preview_room_file for a file of the room whose
\* bytes are present; without a membership row all three answer 403.  For a
\* caller that resolves to no User row, list_room_members answers 401, and
\* so do room_files and preview_room_file unless the room is the public one.
C9ReadsNeedMembership ==
    \A room_id \in RoomInputs, file_id \in FileIdInputs, c \in Creds :
        LET uid == GetActiveUser(c[1], c[2])
            member == RoleOf(c, room_id) \in {"owner", "admin", "editor", "viewer"}
            lf == room_files(room_id, c[1], c[2])
            lm == list_room_members(room_id, c[1], c[2])
            pv == preview_room_file(room_id, file_id, c[1], c[2])
        IN  IF uid # NoId
            THEN /\ lf.status = 200 <=> member
                 /\ lm.status = 200 <=> member
                 /\ pv.status = 200 => member
                 /\ (member /\ Previewable(room_id, file_id)) => pv.status = 200
                 /\ ~member => lf.status = 403 /\ lm.status = 403 /\ pv.status = 403
            ELSE /\ lm.status = 401
                 /\ room_id # public_room_id => lf.status = 401 /\ pv.status = 401

\* A viewer lists the room's files and members and previews a file of the
\* room; a user without a membership row is refused with 403, and a caller
\* without credentials with 401.
C9Witness ==
    \E room_id \in rooms, f \in files, c \in Creds, d \in Creds :
        /\ RoleOf(c, room_id) = "viewer"
        /\ f \in room_files(room_id, c[1], c[2]).files
        /\ list_room_members(room_id, c[1], c[2]).status = 200
        /\ preview_room_file(room_id, f.id, c[1], c[2]).status = 200
        /\ GetActiveUser(d[1], d[2]) # NoId
        /\ room_files(room_id, d[1], d[2]).status = 403
        /\ room_id # public_room_id
        /\ room_files(room_id, NoEmail, NoEmail).status = 401

\* ------------------------------------------------------------------ import: content dedup
\* A coroutine of request r returns in this step after fetching content,
\* with an outcome other than error.
ReturnsAfterContent(r, i) ==
    /\ imp[r].active /\ imp'[r].active
    /\ i \in 1..Len(imp[r].ids)
    /\ imp[r].tasks[i].pc \in {"download", "body"}
    /\ imp'[r].tasks[i].pc = "done"
    /\ imp'[r].tasks[i].out.status # "error"

\* the rows of the user whose sha256 is that of the bytes at `path`
OwnedWithBytesAt(user_id, path) ==
    {f \in files : f.user_id = user_id /\ f.sha256 = Sha256(disk'[path])}

C11Step ==
    \A r \in 1..MaxReq : \A i \in 1..MaxBatch :
        ReturnsAfterContent(r, i) =>
            LET owned == OwnedWithBytesAt(imp[r].user_id, imp[r].tasks[i].dest)
                out == imp'[r].tasks[i].out
            IN  IF owned # {}
                THEN /\ \E f \in owned : out = Outcome("duplicate", "sha256", f.id)
                     /\ files' = files
                ELSE out.status = "imported"

\* C11: with imports in sequence, a coroutine that fetched content for a
\* Drive id the user has no row for returns duplicate by sha256 with the
\* id of the user's row of that hash and leaves the file table as it was,
\* when such a row exists; otherwise it returns imported.
C11DuplicateByContent == [][C11Step]_vars

\* An import of a Drive id returned duplicate by sha256 with the id of a
\* row the user holds for another Drive id.
C11Witness ==
    \E r \in 1..MaxReq : \E i \in TaskIds(r) : \E f \in files :
        /\ imp[r].tasks[i].out = Outcome("duplicate", "sha256", f.id)
        /\ f.user_id = imp[r].user_id
        /\ f.drive_file_id # imp[r].ids[i]
        /\ RecordsFor(imp[r].user_id, imp[r].ids[i]) = {}

C12Step ==
    \A r \in 1..MaxReq : \A i \in 1..MaxBatch :
        (/\ ReturnsAfterContent(r, i)
         /\ imp'[r].tasks[i].out.status = "duplicate"
         /\ imp'[r].tasks[i].out.by = "sha256") =>
            disk'[imp[r].tasks[i].dest] = Absent

\* C12: when a coroutine returns duplicate by sha256, the file it wrote at
\* its destination is gone.
C12NoFileLeftByDuplicate == [][C12Step]_vars

\* C13: two rows of one user for different Drive ids have different
\* local paths, also when the sanitized names of the two files are equal.
C13DistinctPaths ==
    \A f \in files, g \in files :
        (f.user_id = g.user_id /\ f.drive_file_id # g.drive_file_id) =>
            f.local_path # g.local_path


\* ------------------------------------------------------------------ import: the early duplicate check
C14Step ==
    \A r \in 1..MaxReq : \A i \in 1..MaxBatch :
        (LeavesMeta(r, i) /\ RecordsFor(imp[r].user_id, imp[r].ids[i]) # {}) =>
            LET task == imp'[r].tasks[i]
            IN  /\ task.pc = "done"
                /\ \/ task.out = Outcome("error", "metadata_failed", NoId)
                   \/ \E f \in RecordsFor(imp[r].user_id, imp[r].ids[i]) :
                         task.out = Outcome("duplicate", "drive_file_id", f.id)
                /\ task.gets = 0
                /\ task.dest = NoPath
                /\ UNCHANGED <<files, disk>>

\* C14: when the user has a row for the requested Drive id, the coroutine
\* returns from the metadata stage: with duplicate by drive_file_id and that
\* row's id (or with metadata_failed when the metadata call did not give
\* 200), having sent no content request, chosen no destination and written
\* nothing to the storage directory or the file table.
C14DuplicateBeforeContent == [][C14Step]_vars

\* A coroutine returned duplicate by drive_file_id for a row of its user,
\* with no content request sent and no destination chosen.
C14Witness ==
    \E r \in 1..MaxReq : \E i \in TaskIds(r) : \E f \in files :
        /\ imp[r].tasks[i].pc = "done"
        /\ imp[r].tasks[i].out = Outcome("duplicate", "drive_file_id", f.id)
        /\ f.user_id = imp[r].user_id /\ f.drive_file_id = imp[r].ids[i]
        /\ imp[r].tasks[i].gets = 0
        /\ imp[r].tasks[i].dest = NoPath
        /\ PathExists(f.local_path)


\* ------------------------------------------------------------------ remote calls: refresh and retry
\* What a call with refresh does, for every answer of the provider and of
\* the token endpoint, with the tokens a waiting coroutine holds.
C15Inv ==
    \A r \in 1..MaxReq : \A i \in TaskIds(r) :
        imp[r].tasks[i].pc \in {"meta", "download"} =>
            \A s1 \in SeqWorld.statuses, s2 \in SeqWorld.statuses,
               post_ok \in BOOLEAN, new_at \in RefreshedTokens :
                LET rt == imp[r].tok_rt
                    o == CallWithRefresh(imp[r].tasks[i].at, rt, s1, post_ok, new_at, s2)
                IN  /\ o.calls \in {1, 2}
                    /\ o.posts \in {0, 1}
                    /\ o.calls = 2 <=> (s1 = 401 /\ rt # NoToken /\ post_ok)
                    /\ o.posts = 1 <=> (s1 = 401 /\ rt # NoToken)
                    /\ o.status = IF o.calls = 2 THEN s2 ELSE s1
                    /\ o.calls = 1 => o.at = imp[r].tasks[i].at

\* The metadata stage is one call with refresh.
C15Step ==
    \A r \in 1..MaxReq : \A i \in 1..MaxBatch :
        LeavesMeta(r, i) =>
            /\ imp'[r].tasks[i].posts \in {0, 1}
            /\ imp'[r].tasks[i].at # imp[r].tasks[i].at =>
                  (imp'[r].tasks[i].posts = 1 /\ imp[r].tok_rt # NoToken)

\* C15: a call with refresh sends its request once or twice and makes at
\* most one refresh exchange; it sends the request a second time exactly
\* when the first answer was 401, the client holds a refresh token and the
\* exchange succeeded; the answer of the second request, 401 included, is
\* returned as it is, with no further exchange.
C15OneRefreshOneRetry == []C15Inv /\ [][C15Step]_vars

\* A coroutine whose metadata call was answered 401, refreshed the access
\* token and was answered 200 on the retry.
C15Witness ==
    \E r \in 1..MaxReq : \E i \in TaskIds(r) :
        /\ imp[r].tasks[i].pc = "download"
        /\ imp[r].tasks[i].posts = 1
        /\ imp[r].tasks[i].at # imp[r].tok_at


\* ------------------------------------------------------------------ import: refresh failure
\* A coroutine of request r returns in this step.
Returns(r, i) ==
    /\ imp[r].active /\ imp'[r].active
    /\ i \in 1..Len(imp[r].ids)
    /\ imp[r].tasks[i].pc # "done"
    /\ imp'[r].tasks[i].pc = "done"

C16Step ==
    \A r \in 1..MaxReq : \A i \in 1..MaxBatch :
        (Returns(r, i) /\ imp'[r].tasks[i].denied) =>
            /\ imp'[r].tasks[i].out.status = "error"
            /\ files' = files
            /\ imp'[r].tasks[i].posts <= 1

\* C16: a coroutine whose metadata or content fetch was answered 401, and
\* whose refresh was refused (no refresh token, or the exchange failed),
\* returns "error", adds no row to the file table, and has made at most
\* one refresh exchange when it returns.
C16RefreshFailureIsTerminal == [][C16Step]_vars


\* ------------------------------------------------------------------ import: the refreshed token is stored
C17Step ==
    \A r \in 1..MaxReq : \A i \in 1..MaxBatch :
        (Returns(r, i) /\ imp'[r].tasks[i].at # imp[r].tok_at) =>
            TokenOf(tokens', imp[r].user_id).access_token = imp'[r].tasks[i].at

\* C17: when a coroutine returns and its client's access token differs from
\* the one of the stored bundle it started with (it was refreshed during
\* the call), the stored bundle holds the refreshed access token, whether
\* the coroutine returns imported, duplicate or error.
C17RefreshedTokenStored == [][C17Step]_vars


\* ------------------------------------------------------------------ import: the streamed request
\* C18: for every answer of the provider and of the token endpoint, the
\* streamed content fetch of a coroutine that is about to download sends
\* its request at most twice and makes at most one refresh exchange; a 401
\* on the second request gives "error" (a status other than 200) with
\* exactly the one exchange that preceded it.
C18StreamOneShot ==
    \A r \in 1..MaxReq : \A i \in TaskIds(r) :
        imp[r].tasks[i].pc = "download" =>
            \A s1 \in SeqWorld.statuses, s2 \in SeqWorld.statuses,
               ok1 \in BOOLEAN, ok2 \in BOOLEAN,
               new1 \in RefreshedTokens, new2 \in RefreshedTokens :
                LET so == StreamAttempts(imp[r].tasks[i].at, imp[r].tok_rt,
                                         s1, ok1, new1, s2, ok2, new2)
                IN  /\ so.calls <= 2
                    /\ so.posts <= 1
                    /\ (so.calls = 2 /\ s2 = 401) => so.status # 200


\* ------------------------------------------------------------------ import: the batch
C19Inv ==
    \A r \in 1..MaxReq :
        ImportReturns(r) =>
            LET f == import_files_finish(r)
            IN  /\ f.status = 200
                /\ Len(f.results) = Len(imp[r].ids)
                /\ \A i \in 1..Len(imp[r].ids) :
                      /\ f.results[i].file_id = imp[r].ids[i]
                      /\ f.results[i].status \in {"imported", "duplicate", "error"}

C19Step ==
    \A r \in 1..MaxReq :
        /\ \A i \in 1..MaxBatch :
              (Returns(r, i) /\ imp'[r].tasks[i].out.status # "imported") =>
                  /\ files' = files
                  /\ \A j \in 1..Len(imp[r].ids) :
                        j # i => imp'[r].tasks[j] = imp[r].tasks[j]
        /\ (imp[r].active /\ ~imp'[r].active) => (files' = files /\ disk' = disk)

\* C19: when every coroutine of a request that names no room has ended, the
\* response is 200 with one result per requested id, result i carrying
\* ids[i] and one of imported, duplicate, error; a coroutine that ends
\* without importing leaves the file table and the other coroutines as they
\* were, and the response removes no row and no stored file.
C19BatchIsolation == []C19Inv /\ [][C19Step]_vars


\* ------------------------------------------------------------------ import: linking into a room
\* the links of `after` that `before` has not
NewLinks(before, after) == after \ before

\* C20: when every coroutine of a request that names a target room has
\* returned, the response depends on the caller's role on that room at that
\* moment: owner, admin or editor gives 200, and every link created is a
\* link of an imported result into the named room; any other role or no
\* membership gives 403 and leaves the links and the audit log unchanged.
C20LinkPassNeedsEditor ==
    \A r \in 1..MaxReq :
        (ImportReturns(r) /\ imp[r].room_id # NoId) =>
            LET f == import_files_finish(r)
                role == GetMembership(imp[r].user_id, imp[r].room_id)
            IN  IF role \in {"owner", "admin", "editor"}
                THEN /\ f.status = 200
                     /\ links \subseteq f.links
                     /\ \A l \in NewLinks(links, f.links) :
                           /\ l.room_id = imp[r].room_id
                           /\ \E i \in 1..Len(imp[r].ids) :
                                 /\ imp[r].tasks[i].out.status = "imported"
                                 /\ imp[r].tasks[i].out.id = l.file_id
                ELSE /\ f.status = 403
                     /\ f.links = links
                     /\ f.audit = audit

\* A request that names an existing room on which the caller is a viewer or
\* no member has imported a file and is about to answer.
C20Witness ==
    \E r \in 1..MaxReq :
        /\ ImportReturns(r)
        /\ imp[r].room_id \in rooms
        /\ GetMembership(imp[r].user_id, imp[r].room_id) \notin {"owner", "admin", "editor"}
        /\ \E i \in 1..Len(imp[r].ids) : imp[r].tasks[i].out.status = "imported"
        /\ import_files_finish(r).status = 403


\* ------------------------------------------------------------------ import: the link pass
\* Request r is in flight before and after this step and a coroutine of it
\* has moved.
CoroutineMoves(r) ==
    /\ imp[r].active /\ imp'[r].active
    /\ imp'[r] # imp[r]

\* Request r answers in this step.
Answers(r) == imp[r].active /\ ~imp'[r].active

ImportedIds(r) ==
    {imp[r].tasks[i].out.id :
        i \in {j \in 1..Len(imp[r].ids) : imp[r].tasks[j].out.status = "imported"}}

C21Step ==
    \A r \in 1..MaxReq :
        /\ CoroutineMoves(r) => (links' = links /\ audit' = audit)
        /\ (Answers(r) /\ imp[r].room_id # NoId) =>
              /\ \A i \in 1..Len(imp[r].ids) : imp[r].tasks[i].pc = "done"
              /\ \A l \in NewLinks(links, links') :
                    l.room_id = imp[r].room_id /\ l.file_id \in ImportedIds(r)
              /\ import_files_finish(r).status = 200 =>
                    \A id \in ImportedIds(r) :
                        Cardinality({l \in links' : l.room_id = imp[r].room_id
                                                     /\ l.file_id = id}) = 1

\* C21: while coroutines of an import request are still running, no step of
\* the request changes the link table or the audit log; the request answers
\* only when all of them are done, and in that one step every link it
\* creates joins the named room to the row of an "imported" outcome (none
\* to the row a "duplicate" names, none for an "error"); when the answer is
\* 200, each imported row has exactly one link into the room afterwards.
C21LinkPassAfterImports == [][C21Step]_vars

\* A batch of two into a room is about to answer 200: one outcome is
\* imported, the other is not, and the link pass creates the one link, to
\* the imported row.
C21Witness ==
    \E r \in 1..MaxReq :
        /\ ImportReturns(r)
        /\ imp[r].room_id \in rooms
        /\ Len(imp[r].ids) = 2
        /\ \E i, j \in 1..2 :
              /\ imp[r].tasks[i].out.status = "imported"
              /\ imp[r].tasks[j].out.status \in {"duplicate", "error"}
        /\ LET f == import_files_finish(r)
           IN  /\ f.status = 200
               /\ \E l \in f.links :
                     /\ NewLinks(links, f.links) = {l}
                     /\ l.file_id \in ImportedIds(r)

\* ------------------------------------------------------------------ rooms: memberships
MembershipsOf(rows, user_id, room_id) ==
    {m \in rows : m.user_id = user_id /\ m.room_id = room_id}

C22Unique ==
    \A m \in members : MembershipsOf(members, m.user_id, m.room_id) = {m}

C22AddMember ==
    \A room_id \in RoomInputs, req_email \in Emails, req_role \in Roles, c \in Creds :
        LET r == add_member(room_id, req_email, req_role, c[1], c[2])
            before == MembershipsOf(members, users[req_email], room_id)
            target == r.users[req_email]
        IN  r.status = 200 =>
                /\ target # NoId
                /\ \A e \in Emails \ {req_email} :
                      r.users[e] = users[e] /\ r.users[e] # target
                /\ users[req_email] # NoId => target = users[req_email]
                /\ \E m \in r.members :
                      /\ MembershipsOf(r.members, target, room_id) = {m}
                      /\ m.role = req_role
                      /\ \A old \in before : m.id = old.id
                      /\ r.members \ {m} = members \ before
                /\ Cardinality(r.members) =
                      Cardinality(members) + (IF before = {} THEN 1 ELSE 0)

\* C22: no two membership rows have the same user and room; a successful
\* add-member for a user who has a row in the room changes the role of that
\* row and adds none, and for anyone else adds exactly one row; when the
\* email has no user row it creates exactly one, whose id the membership
\* carries, and otherwise changes no user row.
C22OneMembershipPerUserAndRoom == C22Unique /\ C22AddMember

\* A user who was created by add-member and never signed in has a
\* membership, and an administrator's add-member naming another role for
\* that user succeeds.
C22Witness ==
    \E room_id \in rooms, e \in Emails, c \in Creds, req_role \in MemberRoles :
        /\ users[e] # NoId
        /\ e \notin sessions
        /\ GetMembership(users[e], room_id) \notin {NoRole, req_role}
        /\ add_member(room_id, e, req_role, c[1], c[2]).status = 200


LinksOf(rows, room_id, file_id) ==
    {l \in rows : l.room_id = room_id /\ l.file_id = file_id}

C24Unique == \A l \in links : LinksOf(links, l.room_id, l.file_id) = {l}

C24LinkFile ==
    \A room_id \in RoomInputs, file_id \in FileIdInputs, c \in Creds :
        LET r == link_file(room_id, file_id, c[1], c[2])
            before == LinksOf(links, room_id, file_id)
        IN  r.status = 200 =>
                IF before # {}
                THEN /\ r.links = links
                     /\ r.audit = audit
                     /\ \E l \in before : r.id = l.id
                ELSE /\ \E l \in r.links :
                           /\ r.links \ links = {l}
                           /\ l.id = r.id /\ l.room_id = room_id /\ l.file_id = file_id
                     /\ links \subseteq r.links
                     /\ Len(r.audit) = Len(audit) + 1

C24LinkPass ==
    \A r \in 1..MaxReq :
        (ImportReturns(r) /\ imp[r].room_id # NoId) =>
            LET f == import_files_finish(r)
            IN  /\ links \subseteq f.links
                /\ \A l \in f.links : LinksOf(f.links, l.room_id, l.file_id) = {l}
                /\ \A l \in NewLinks(links, f.links) :
                      LinksOf(links, l.room_id, l.file_id) = {}
                /\ Len(f.audit) = Len(audit) + Cardinality(NewLinks(links, f.links))

\* C24: no two link rows join the same file and room; a successful
\* link-file for a pair that has a link changes neither the link table nor
\* the audit log and returns the id of that link, and for a pair that has
\* none adds one link and one audit entry; the link pass of an import adds
\* links only for pairs that have none, one audit entry for each, and
\* leaves every existing link as it is.
C24OneLinkPerFileAndRoom == C24Unique /\ C24LinkFile /\ C24LinkPass

\* A file is linked into a room and its owner, an editor or higher there,
\* links it again: 200 with the id of the link that exists.
C24Relink ==
    \E l \in links, f \in files, c \in Creds :
        /\ f.id = l.file_id
        /\ LET r == link_file(l.room_id, f.id, c[1], c[2])
           IN  r.status = 200 /\ r.id = l.id /\ r.links = links /\ r.audit = audit

\* An import into a room is about to answer with an imported row whose id
\* a link of the room already names.
C24PassMeetsLink ==
    \E r \in 1..MaxReq :
        /\ ImportReturns(r) /\ imp[r].room_id # NoId
        /\ import_files_finish(r).status = 200
        /\ \E id \in ImportedIds(r) : LinksOf(links, imp[r].room_id, id) # {}


C24Witness == C24Relink /\ C24PassMeetsLink

\* ------------------------------------------------------------------ audit log
\* `after` is the log with one more entry, which records the tag, the actor
\* and the room.
Audited(after, actor, action, room_id) ==
    /\ Len(after) = Len(audit) + 1
    /\ SubSeq(after, 1, Len(audit)) = audit
    /\ after[Len(after)].actor = actor
    /\ after[Len(after)].action = action
    /\ after[Len(after)].room_id = room_id

C25Create ==
    \A c \in Creds :
        LET r == create_room(c[1], c[2])
        IN  IF r.status = 200
            THEN Audited(r.audit, GetActiveUser(c[1], c[2]), "room.create", r.id)
            ELSE r.audit = audit /\ r.rooms = rooms

C25AddMember ==
    \A room_id \in RoomInputs, req_email \in Emails, req_role \in Roles, c \in Creds :
        LET r == add_member(room_id, req_email, req_role, c[1], c[2])
        IN  IF r.status = 200
            THEN Audited(r.audit, GetActiveUser(c[1], c[2]), "room.add_member", room_id)
            ELSE r.audit = audit /\ r.members = members

C25Link ==
    \A room_id \in RoomInputs, file_id \in FileIdInputs, c \in Creds :
        LET r == link_file(room_id, file_id, c[1], c[2])
        IN  IF r.links # links
            THEN Audited(r.audit, GetActiveUser(c[1], c[2]), "room.link_file", room_id)
            ELSE r.audit = audit

C25Preview ==
    \A room_id \in RoomInputs, file_id \in FileIdInputs, c \in Creds :
        LET r == preview_room_file(room_id, file_id, c[1], c[2])
        IN  IF r.status = 200
            THEN Audited(r.audit, GetActiveUser(c[1], c[2]), "room.preview_file", room_id)
            ELSE r.audit = audit

C25Delete ==
    \A room_id \in RoomInputs, file_id \in FileIdInputs, c \in Creds, rm_ok \in BOOLEAN :
        LET r == delete_room_file(room_id, file_id, c[1], c[2], rm_ok)
        IN  IF r.status = 200
            THEN Audited(r.audit, GetActiveUser(c[1], c[2]), "room.delete_file", room_id)
            ELSE r.audit = audit /\ r.files = files

C25LinkPass ==
    \A r \in 1..MaxReq :
        ImportReturns(r) =>
            LET f == import_files_finish(r)
                n == Cardinality(NewLinks(links, f.links))
            IN  /\ Len(f.audit) = Len(audit) + n
                /\ SubSeq(f.audit, 1, Len(audit)) = audit
                /\ \A k \in (Len(audit) + 1)..Len(f.audit) :
                      /\ f.audit[k].actor = imp[r].user_id
                      /\ f.audit[k].action = "room.link_file"
                      /\ f.audit[k].room_id = imp[r].room_id

\* C25: each successful room creation, add-member, room-scoped preview and
\* room-scoped delete, and each link that link-file or the import link pass
\* creates, appends exactly one audit entry with the action's tag, the
\* caller's user id and the room; a call that fails, or a link-file that
\* finds the link, appends none and has no effect.
C25OneEntryPerAction ==
    /\ C25Create /\ C25AddMember /\ C25Link /\ C25Preview /\ C25Delete
    /\ C25LinkPass


C26Step ==
    /\ Len(audit') >= Len(audit)
    /\ SubSeq(audit', 1, Len(audit)) = audit

\* C26: every step leaves each audit entry in its place with its fields
\* and can only add entries after the last one.
C26AppendOnly == [][C26Step]_vars

\* The log holds a room creation, then an add-member, then a third entry
\* of another action.
C26Witness ==
    /\ Len(audit) = 3
    /\ audit[1].action = "room.create"
    /\ audit[2].action = "room.add_member"
    /\ audit[3].action \in {"room.link_file", "room.preview_file", "room.delete_file"}


\* ------------------------------------------------------------------ files: deletion
\* What a successful deletion of row f leaves: the table without f; the
\* storage without f's bytes when the removal is permitted, and unchanged
\* when it is refused.
Deleted(f, rfiles, rdisk, rm_ok) ==
    /\ f \in files
    /\ rfiles = files \ {f}
    /\ rm_ok => (f.local_path \in Paths => rdisk[f.local_path] = Absent)
    /\ \A p \in Paths : (p # f.local_path \/ ~rm_ok) => rdisk[p] = disk[p]

C27Owner ==
    \A file_id \in FileIdInputs, c \in Creds :
        LET ok == delete_file(file_id, c[1], c[2], TRUE)
            no == delete_file(file_id, c[1], c[2], FALSE)
        IN  /\ ok.status = no.status
            /\ ok.status = 200 =>
                  /\ Deleted(FileGet(file_id), ok.files, ok.disk, TRUE)
                  /\ Deleted(FileGet(file_id), no.files, no.disk, FALSE)

C27Room ==
    \A room_id \in RoomInputs, file_id \in FileIdInputs, c \in Creds :
        LET ok == delete_room_file(room_id, file_id, c[1], c[2], TRUE)
            no == delete_room_file(room_id, file_id, c[1], c[2], FALSE)
        IN  /\ ok.status = no.status
            /\ ok.status = 200 =>
                  /\ Deleted(FileGet(file_id), ok.files, ok.disk, TRUE)
                  /\ Deleted(FileGet(file_id), no.files, no.disk, FALSE)

\* C27: an owner-scoped or room-scoped deletion answers the same whether
\* or not the filesystem lets the bytes be removed; when it answers 200 the
\* row is gone from the file table, the bytes are gone when the removal was
\* permitted, and storage is untouched when it was refused.
C27RecordAlwaysRemoved == C27Owner /\ C27Room

\* A room-scoped deletion has succeeded, and bytes that no row names are
\* in storage: a removal was refused and the row went all the same.
C27Witness ==
    /\ \E k \in 1..Len(audit) : audit[k].action = "room.delete_file"
    /\ \E p \in Paths : disk[p] # Absent /\ \A f \in files : f.local_path # p


\* ------------------------------------------------------------------ files: owner scope
\* the caller resolves to a user row and file_id names no row of that user
NotOwn(c, file_id) ==
    /\ GetActiveUser(c[1], c[2]) # NoId
    /\ \A f \in files : f.id = file_id => f.user_id # GetActiveUser(c[1], c[2])

C29NotFound ==
    \A file_id \in FileIdInputs, c \in Creds, rm_ok \in BOOLEAN :
        NotOwn(c, file_id) =>
            /\ preview_file(file_id, c[1], c[2]) =
                  [status |-> 404, detail |-> "File not found", path |-> NoPath]
            /\ delete_file(file_id, c[1], c[2], rm_ok) =
                  [status |-> 404, detail |-> "File not found",
                   files |-> files, disk |-> disk]

C29List ==
    \A c \in Creds :
        LET r == list_files(c[1], c[2])
        IN  r.status = 200 =>
                r.files = {f \in files : f.user_id = GetActiveUser(c[1], c[2])}

\* C29: for a caller who resolves to a user row, owner-scoped preview and
\* owner-scoped delete of a file id answer 404 "File not found", the same
\* whether no row has the id or the row belongs to another user, and the
\* delete leaves the file table and storage as they are; the owner-scoped
\* list returns exactly the rows of the caller.
C29OwnerScope == C29NotFound /\ C29List

\* Two users own one row each; one of them is refused the other's row,
\* previews their own, and lists only their own.
C29Witness ==
    \E f \in files, g \in files, c \in Creds :
        /\ f.user_id # g.user_id
        /\ GetActiveUser(c[1], c[2]) = f.user_id
        /\ preview_file(g.id, c[1], c[2]).status = 404
        /\ delete_file(g.id, c[1], c[2], TRUE).status = 404
        /\ preview_file(f.id, c[1], c[2]).status = 200
        /\ list_files(c[1], c[2]).files = {f}


\* ------------------------------------------------------------------ tokens: the refresh token is kept
C28Unique ==
    \A t \in tokens, u \in tokens : t.user_id = u.user_id => t.id = u.id

C28Step ==
    /\ \A t \in tokens :
          t.refresh_token # NoToken =>
              \E u \in tokens' : /\ u.id = t.id
                                 /\ u.user_id = t.user_id
                                 /\ u.refresh_token # NoToken
    /\ \A r \in 1..MaxReq :
          (imp[r].active /\ imp'[r].active /\ imp[r].tok_rt # NoToken) =>
              imp'[r].tok_rt = imp[r].tok_rt

\* C28: the token table holds at most one row per user (the provider is
\* always "google"), and a row whose refresh token is set keeps a set
\* refresh token through every step: a repeated callback whose answer has
\* no refresh token, a refresh of the access token by the Drive client, and
\* the storing of a refreshed access token by an import; the bundle of a
\* running import keeps its refresh token as well.
C28RefreshTokenKept == []C28Unique /\ [][C28Step]_vars

\* A running import has refreshed its access token and stored it, the
\* callback has run again since, and the row still has its refresh token.
C28Witness ==
    \E r \in 1..MaxReq :
        /\ imp[r].active
        /\ imp[r].tok_at = "at1"
        /\ imp[r].tok_rt = "rt"
        /\ TokenRow(imp[r].user_id).access_token = "at0"
        /\ TokenRow(imp[r].user_id).refresh_token = "rt"


\* ------------------------------------------------------------------ identity: session first, parameter behind the flag
ImportInputs == {<<>>, <<<<"_">>>>}

\* Everything the endpoints answer to a request with session email s and
\* email parameter e, over all their other inputs.
RequestAnswers(s, e) ==
    [list_files  |-> list_files(s, e),
     preview     |-> [f \in FileIdInputs |-> preview_file(f, s, e)],
     delete      |-> [f \in FileIdInputs |-> delete_file(f, s, e, TRUE)],
     import      |-> [ids \in ImportInputs |->
                        [rid \in {NoId} \cup RoomIds |->
                           import_files_start(ids, rid, s, e)]],
     list_rooms  |-> list_rooms(s, e),
     create_room |-> create_room(s, e),
     add_member  |-> [room_id \in RoomInputs |-> [req_email \in Emails |->
                        [req_role \in Roles |->
                           add_member(room_id, req_email, req_role, s, e)]]],
     members     |-> [room_id \in RoomInputs |-> list_room_members(room_id, s, e)],
     room_files  |-> [room_id \in RoomInputs |-> room_files(room_id, s, e)],
     link        |-> [room_id \in RoomInputs |-> [f \in FileIdInputs |->
                        link_file(room_id, f, s, e)]],
     room_preview |-> [room_id \in RoomInputs |-> [f \in FileIdInputs |->
                        preview_room_file(room_id, f, s, e)]],
     room_delete |-> [room_id \in RoomInputs |-> [f \in FileIdInputs |->
                        delete_room_file(room_id, f, s, e, TRUE)]]]

\* with a session email the parameter changes no answer; without one the
\* parameter acts as a session email would while the flag is on, and
\* changes no answer while it is off
C30Resolution ==
    \A s \in SessionInputs, e \in Emails :
        /\ s # NoEmail => RequestAnswers(s, e) = RequestAnswers(s, NoEmail)
        /\ allow_email_param => RequestAnswers(NoEmail, e) = RequestAnswers(e, NoEmail)
        /\ ~allow_email_param =>
               RequestAnswers(NoEmail, e) = RequestAnswers(NoEmail, NoEmail)

\* the endpoints without a public path and without a check before the
\* caller is resolved
C30Refused(e) ==
    \A room_id \in RoomInputs, f \in FileIdInputs :
        /\ list_files(NoEmail, e).status = 401
        /\ preview_file(f, NoEmail, e).status = 401
        /\ delete_file(f, NoEmail, e, TRUE).status = 401
        /\ create_room(NoEmail, e).status = 401
        /\ list_room_members(room_id, NoEmail, e).status = 401
        /\ link_file(room_id, f, NoEmail, e).status = 401
        /\ delete_room_file(room_id, f, NoEmail, e, TRUE).status = 401
        /\ ~IsPublicRoom(room_id) =>
              /\ room_files(room_id, NoEmail, e).status = 401
              /\ preview_room_file(room_id, f, NoEmail, e).status = 401
        /\ (public_room_id = NoId \/ public_room_id \notin rooms) =>
              list_rooms(NoEmail, e).status = 401

C40Step ==
    \A r \in 1..MaxReq : \A i \in 1..MaxBatch :
        /\ (Returns(r, i) /\ imp'[r].tasks[i].out.status = "error") =>
              /\ imp'[r].tasks[i].out.by \in {"metadata_failed", "download_failed"}
              /\ imp[r].tasks[i].pc \in {"meta", "download"}
              /\ files' = files /\ links' = links /\ disk' = disk
        /\ (/\ imp[r].active /\ imp'[r].active
            /\ i <= Len(imp[r].ids)
            /\ imp[r].tasks[i].pc = "meta" /\ imp'[r].tasks[i].pc = "download") =>
              files' = files /\ links' = links /\ disk' = disk

\* C40: a coroutine that returns "error" (metadata_failed or
\* download_failed) does so from the metadata stage or from the download
\* stage, before its destination was opened, and none of its steps changes
\* the file table, the links or the storage directory.
C40ErrorLeavesNothing == [][C40Step]_vars

\* A coroutine has chosen its destination, got no content from the
\* buffered request and a refusal from the streamed one, and returned
\* download_failed: the destination does not exist and no row names it.
C40Witness ==
    \E r \in 1..MaxReq : \E i \in 1..MaxBatch :
        /\ imp[r].active /\ i <= Len(imp[r].ids)
        /\ imp[r].tasks[i].pc = "done"
        /\ imp[r].tasks[i].out = Outcome("error", "download_failed", NoId)
        /\ imp[r].tasks[i].gets >= 2
        /\ imp[r].tasks[i].dest # NoPath
        /\ disk[imp[r].tasks[i].dest] = Absent
        /\ \A f \in files : f.local_path # imp[r].tasks[i].dest


\* ------------------------------------------------------------------ import: every coroutine ends
\* Fair imports: batches of up to MaxBatch ids run concurrently; the
\* provider answers 200 or 401 and the token endpoint may refuse.  A
\* request starts only while the file table and the storage directory have
\* room for what it may add, and the event loop resumes every coroutine
\* whose awaited call has returned: each coroutine is treated fairly.
LiveWorld ==
    [emails |-> {"ann"}, both |-> FALSE, refresh |-> {"rt"}, roles |-> {},
     statuses |-> {200, 401}, post_ok |-> BOOLEAN, raises |-> FALSE,
     names |-> {<<"/">>}, buffered |-> {"c1", Empty}, streamed |-> {"c2"},
     batches |-> Batches({<<"_">>}), rooms |-> {NoId}, rm |-> {TRUE}]

Headroom(n) ==
    /\ NextId(files) - 1 + ActiveTasks + n <= MaxFileId
    /\ Cardinality({p \in Paths : disk[p] # Absent}) + ActiveTasks + n <= MaxIdx + 1

ImportStartLive ==
    /\ ImportStart(LiveWorld)
    /\ \A r \in 1..MaxReq : imp'[r].active => Headroom(Len(imp'[r].ids))

NextLive ==
    \/ GoogleCallback(LiveWorld)
    \/ ImportStartLive
    \/ ImportMeta(LiveWorld)
    \/ ImportDownload(LiveWorld)
    \/ ImportBody(LiveWorld)
    \/ ImportFinish

\* coroutine i of request r runs its next stage
CoroutineStep(w, r, i) ==
    /\ imp[r].active
    /\ i <= Len(imp[r].ids)
    /\ \/ import_one_meta(w, r, i)
       \/ import_one_download(w, r, i)
       \/ import_one_body(w, r, i)

SpecLive ==
    /\ InitImport
    /\ [][NextLive]_vars
    /\ \A r \in 1..MaxReq : \A i \in 1..MaxBatch :
          WF_vars(CoroutineStep(LiveWorld, r, i))

Stage(pc) == CASE pc = "meta" -> 0 [] pc = "download" -> 1 [] pc = "body" -> 2
               [] pc = "done" -> 3

Running(r, i) ==
    imp[r].active /\ i <= Len(imp[r].ids) /\ imp[r].tasks[i].pc # "done"

Returned(r, i) ==
    /\ imp[r].active /\ i <= Len(imp[r].ids)
    /\ imp[r].tasks[i].pc = "done"
    /\ imp[r].tasks[i].out.status \in {"imported", "duplicate", "error"}

\* what a coroutine has sent so far
C39Bounds ==
    \A r \in 1..MaxReq : \A i \in 1..MaxBatch :
        (imp[r].active /\ i <= Len(imp[r].ids)) =>
            LET task == imp[r].tasks[i]
            IN  /\ task.metas <= 2
                /\ task.gets - task.streams <= 2
                /\ task.streams <= 2
                /\ task.pc = "done" <=>
                      task.out.status \in {"imported", "duplicate", "error"}
                /\ task.pc # "done" <=> task.out = NoOutcome

\* a step of a coroutine takes it to a later stage, and a returned
\* coroutine does not move again
C39Step ==
    \A r \in 1..MaxReq : \A i \in 1..MaxBatch :
        (imp[r].active /\ imp'[r].active /\ i <= Len(imp[r].ids)
            /\ imp'[r].tasks[i] # imp[r].tasks[i]) =>
                Stage(imp'[r].tasks[i].pc) > Stage(imp[r].tasks[i].pc)

C39Ends ==
    \A r \in 1..MaxReq : \A i \in 1..MaxBatch : Running(r, i) ~> Returned(r, i)

Owners(rows, room_id) == {m \in rows : m.room_id = room_id /\ m.role = "owner"}

C38Rejected ==
    \A room_id \in RoomInputs, req_email \in Emails, req_role \in Roles, c \in Creds :
        req_role \notin {"admin", "editor", "viewer"} =>
            add_member(room_id, req_email, req_role, c[1], c[2]) =
                [status |-> 400, users |-> users, members |-> members, audit |-> audit]

C38Step ==
    \A room_id \in RoomInputs :
        /\ room_id \in rooms =>
              Cardinality(Owners(members', room_id)) <= Cardinality(Owners(members, room_id))
        /\ Owners(members', room_id) \ Owners(members, room_id) # {} =>
              room_id \in rooms' \ rooms

\* C38: add_member answers 400 to a request that names a role other than
\* admin, editor and viewer ("owner" included), whoever sends it, and then
\* no user row, membership or audit entry changes; a membership with role
\* owner appears only in the step that creates its room, and the number of
\* owner memberships of an existing room never grows.
C38OwnerOnlyByCreation == []C38Rejected /\ [][C38Step]_vars

\* A room has its owner and a second member; the owner's request to make
\* that member an owner is answered 400, the one to make them an admin 200.
C38Witness ==
    \E room_id \in rooms, s \in sessions, e \in Emails :
        /\ s # e
        /\ GetMembership(users[s], room_id) = "owner"
        /\ GetMembership(users[e], room_id) \in {"editor", "viewer"}
        /\ Cardinality(Owners(members, room_id)) = 1
        /\ add_member(room_id, e, "owner", s, NoEmail).status = 400
        /\ add_member(room_id, e, "admin", s, NoEmail).status = 200


\* ------------------------------------------------------------------ rooms: a room and its owner
\* C33: every room has at least one membership with role owner, whatever
\* add_member calls its owner or an admin have made (a call that names
\* the owner's own email included).
C33RoomKeepsOwner ==
    \A room_id \in rooms : Owners(members, room_id) # {}


\* ------------------------------------------------------------------ rooms: a higher role may do what a lower one may
Rank(role) ==
    CASE role = "owner" -> 4 [] role = "admin" -> 3 [] role = "editor" -> 2
      [] role = "viewer" -> 1 [] OTHER -> 0

\* the requests of the users, each under their own session email
SessionCallers == {<<e, NoEmail>> : e \in Emails}

\* c is a member of the room and d a member with the same or a higher role
AtLeast(d, c, room_id) ==
    /\ GetActiveUser(c[1], c[2]) # NoId /\ GetActiveUser(d[1], d[2]) # NoId
    /\ RoleOf(c, room_id) # NoRole
    /\ Rank(RoleOf(d, room_id)) >= Rank(RoleOf(c, room_id))

C37RoleCheck ==
    \A room_id \in RoomInputs, c \in SessionCallers, d \in SessionCallers :
        AtLeast(d, c, room_id) =>
            \A allowed \in {AdminUp, EditorUp, AnyMember} :
                EnsureRole(GetActiveUser(c[1], c[2]), room_id, allowed) =>
                    EnsureRole(GetActiveUser(d[1], d[2]), room_id, allowed)

C37Endpoints ==
    \A room_id \in RoomInputs, c \in SessionCallers, d \in SessionCallers :
        AtLeast(d, c, room_id) =>
            /\ \A req_email \in Emails, req_role \in Roles :
                  add_member(room_id, req_email, req_role, c[1], c[2]).status = 200 =>
                      add_member(room_id, req_email, req_role, d[1], d[2]).status = 200
            /\ list_room_members(room_id, c[1], c[2]).status = 200 =>
                  list_room_members(room_id, d[1], d[2]).status = 200
            /\ room_files(room_id, c[1], c[2]).status = 200 =>
                  room_files(room_id, d[1], d[2]).status = 200
            /\ \A file_id \in FileIdInputs :
                  /\ preview_room_file(room_id, file_id, c[1], c[2]).status = 200 =>
                        preview_room_file(room_id, file_id, d[1], d[2]).status = 200
                  /\ link_file(room_id, file_id, c[1], c[2]).status # 403 =>
                        link_file(room_id, file_id, d[1], d[2]).status # 403
                  /\ (/\ delete_room_file(room_id, file_id, c[1], c[2], TRUE).status # 403
                      /\ delete_room_file(room_id, file_id, d[1], d[2], TRUE).status = 403) =>
                        /\ RoomHasFile(room_id, file_id)
                        /\ FileGet(file_id).user_id # GetActiveUser(d[1], d[2])

\* C37: in the order owner > admin > editor > viewer, whenever the role
\* check of a room endpoint lets a member pass, it lets every member of
\* the room with the same or a higher role pass: add_member,
\* list_room_members, room_files and preview_room_file answer 200 to the
\* higher member when they do to the lower; link_file does not answer 403
\* to the higher when it does not to the lower; delete_room_file answers
\* 403 to the higher only because the file of the room is not theirs.
C37Monotone == C37RoleCheck /\ C37Endpoints

\* An editor and a member of higher role share a room: the editor links
\* their own file and lists the members but may not add one; the higher
\* member may do all of it.
C37Witness ==
    \E room_id \in rooms, c \in SessionCallers, d \in SessionCallers, f \in files :
        /\ RoleOf(c, room_id) = "editor"
        /\ RoleOf(d, room_id) \in {"admin", "owner"}
        /\ f.user_id = GetActiveUser(c[1], c[2])
        /\ link_file(room_id, f.id, c[1], c[2]).status = 200
        /\ link_file(room_id, f.id, d[1], d[2]).status = 404
        /\ list_room_members(room_id, c[1], c[2]).status = 200
        /\ list_room_members(room_id, d[1], d[2]).status = 200
        /\ add_member(room_id, "bob", "viewer", c[1], c[2]).status = 403
        /\ add_member(room_id, "bob", "viewer", d[1], d[2]).status = 200


\* ------------------------------------------------------------------ rooms: links and the rows they name
\* C34: every link names a row of the file table: once a file is deleted,
\* by its owner or through a room, no link to it is left.
C34LinksResolve ==
    \A l \in links : \E f \in files : f.id = l.file_id


\* ------------------------------------------------------------------ who is served a file
\* Some endpoint gives the caller the row of f or the path of its bytes.
Served(c, f) ==
    \/ f \in list_files(c[1], c[2]).files
    \/ preview_file(f.id, c[1], c[2]).status = 200
    \/ \E room_id \in RoomInputs :
          \/ f \in room_files(room_id, c[1], c[2]).files
          \/ preview_room_file(room_id, f.id, c[1], c[2]).status = 200

\* The caller owns f, or is a member of a room with a link to f, or
\* resolves to no user while the public room has a link to f.
Entitled(c, f) ==
    LET user == GetActiveUser(c[1], c[2])
    IN  \/ user # NoId /\ f.user_id = user
        \/ \E l \in links :
              /\ l.file_id = f.id
              /\ \/ RoleOf(c, l.room_id) # NoRole
                 \/ user = NoId /\ IsPublicRoom(l.room_id)

C36Served == \A c \in Creds, f \in files : Served(c, f) => Entitled(c, f)

C36LinkOwn ==
    \A room_id \in RoomInputs, file_id \in FileIdInputs, c \in Creds :
        LET r == link_file(room_id, file_id, c[1], c[2])
            user == GetActiveUser(c[1], c[2])
        IN  /\ r.status = 200 => FileGet(file_id).user_id = user
            /\ (/\ user # NoId
                /\ RoleOf(c, room_id) \in {"owner", "admin", "editor"}
                /\ \E f \in files : f.id = file_id /\ f.user_id # user) =>
                  r.status = 404 /\ r.links = links

\* a row that enters the file table is in no room
C36Step ==
    \A f \in files' :
        (\A g \in files : g.id # f.id) => \A l \in links' : l.file_id # f.id

\* C36: a caller gets the row or the bytes of a file from list_files,
\* preview_file, room_files or preview_room_file only when the caller owns
\* it, or is a member of a room it is linked into, or resolves to no user
\* while it is linked into the public room; link_file links only files of
\* the caller and answers 404 for another user's file; and a file is in a
\* room only by such a link: a row that enters the file table is linked
\* nowhere.
C36OnlyEntitledServed == []C36Served /\ []C36LinkOwn /\ [][C36Step]_vars


\* ------------------------------------------------------------------ import: a refused link pass keeps the imports
LacksEditor(user_id, room_id) ==
    GetMembership(user_id, room_id) \notin {"owner", "admin", "editor"}

\* the request is accepted and its coroutines run whatever the caller's
\* role on the room it names
C35Start ==
    \A room_id \in RoomInputs, c \in Creds :
        LET user == GetActiveUser(c[1], c[2])
        IN  (user # NoId /\ HasToken(user) /\ LacksEditor(user, room_id)) =>
                import_files_start(<<<<"_">>>>, room_id, c[1], c[2]).status = 0

C35Step ==
    \A r \in 1..MaxReq :
        /\ \A i \in 1..MaxBatch :
              ReturnsImported(r, i) =>
                  \E f \in files' \ files :
                      /\ f.id = imp'[r].tasks[i].out.id
                      /\ f.user_id = imp[r].user_id
                      /\ disk'[f.local_path] # Absent
        /\ (Answers(r) /\ imp[r].room_id # NoId
              /\ LacksEditor(imp[r].user_id, imp[r].room_id)) =>
                  /\ import_files_finish(r).status = 403
                  /\ links' = links /\ audit' = audit
                  /\ files' = files /\ disk' = disk

\* C35: import_files starts the coroutines without looking at the caller's
\* role on the room it names; each coroutine that returns "imported" has
\* written its bytes and inserted its row; and when the caller is not
\* owner, admin or editor of the room as the request answers, the answer
\* is 403, no link and no audit entry is added, and the file table and the
\* storage directory stay as the coroutines left them.
C35ImportsSurviveForbidden == []C35Start /\ [][C35Step]_vars

\* A viewer of the room has imported a file into it: the row and its bytes
\* are there, no link names the row, and the request is about to answer 403.
C35Witness ==
    \E r \in 1..MaxReq : \E f \in files :
        /\ ImportReturns(r)
        /\ GetMembership(imp[r].user_id, imp[r].room_id) = "viewer"
        /\ f.id \in ImportedIds(r)
        /\ f.user_id = imp[r].user_id
        /\ PathExists(f.local_path)
        /\ \A l \in links : l.file_id # f.id
        /\ import_files_finish(r).status = 403


\* ------------------------------------------------------------------ import: one path, one row
\* C32: no two rows of the file table have the same local_path, whoever
\* owns them, also when coroutines of one batch whose sanitized names are
\* equal run concurrently.
C32UniqueLocator ==
    \A f \in files, g \in files : f.id # g.id => f.local_path # g.local_path


====
